---- MODULE Spec2Model ----
(***************************************************************************)
(* State-machine model of the unique-pointer crate: RefCounter (a shared   *)
(* heap cell holding a usize) and UniquePointer<T> (address, raw pointer,  *)
(* RefCounter and a u8 of flags).  Handles live in numbered slots; the     *)
(* heap of T blocks and the heap of counter cells are explicit, so that    *)
(* sharing, leaking and freeing are observable.                            *)
(***************************************************************************)
EXTENDS Integers, Naturals, Sequences, FiniteSets, TLC

\* ---------------------------------------------------------------- bounds
MaxHandles == 2
MaxBlocks == 1
MaxCells == 3
MaxRefs == 1
MaxVal == 1
MaxCounters == 2
MaxCount == 2
MaxLen == 4
MaxSym == 3

Slots == 1..MaxHandles
HeapAddrs == 1..MaxBlocks
\* address of a T object that lives outside the pointer's heap (a local the
\* caller hands to read_only / copy_from_ref)
ExtAddr == MaxBlocks + 1
Addrs == HeapAddrs \cup {ExtAddr}
\* one more heap address, mapped only in the specifications whose handles are
\* allocated a second block while the first is still in use
SpareAddr == MaxBlocks + 2
Values == 1..MaxVal
\* the names of the RefCounter values held on their own, and what they count
CounterSlots == 1..MaxCounters
Counts == 0..MaxCount
\* the values held by the cells of the list example
Syms == 1..MaxSym

\* ------------------------------------------------------- program constants
ISACOPY == 1
ISALLOC == 2
WRITTEN == 4

\* std::ptr::null_mut(): the null raw pointer, whose address is 0
NullPtr == 0

\* u8 bit operations restricted to the three flag bits the crate uses
Bit(n, k) == (n \div k) % 2
BitAnd(a, b) == Bit(a, 1) * Bit(b, 1) + 2 * (Bit(a, 2) * Bit(b, 2)) + 4 * (Bit(a, 4) * Bit(b, 4))
BitOr(a, b) == (a + b) - BitAnd(a, b)

\* handles, cells, mem, blocks: the UniquePointer handles, the heap of counter
\* cells, the memory of T values and the set of allocated T blocks;
\* counters: the RefCounter values held on their own (their `data` pointer);
\* ret: what the last call of an observer (read(), try_read(), ...) returned;
\* smarts: the SmartPointer handles, which use the same memory of T values
\* cons: the cons Cell the list example builds (empty until Cell::new is called)
VARIABLES handles, cells, mem, blocks, counters, ret, smarts, cons
vars == <<handles, cells, mem, blocks, counters, ret, smarts, cons>>

\* ------------------------------------------------------------- RefCounter
\* A RefCounter value is its `data` pointer: NullPtr or an index into the
\* sequence of counter cells.  Every operator returns the cell heap and the
\* (possibly updated) data pointer.
RC(c, d) == [cells |-> c, data |-> d]

RefCounter_null == NullPtr

RefCounter_read(c, d) == IF d = NullPtr THEN 0 ELSE c[d]

\* std::alloc::alloc of one usize, then up.write(1)
RefCounter_alloc(c, d) ==
    IF d # NullPtr THEN RC(c, d) ELSE RC(Append(c, 1), Len(c) + 1)

RefCounter_write(c, d, v) ==
    LET a == RefCounter_alloc(c, d)
    IN RC([a.cells EXCEPT ![a.data] = v], a.data)

RefCounter_incr_by(c, d, by) == RefCounter_write(c, d, RefCounter_read(c, d) + by)

RefCounter_incr(c, d) == RefCounter_incr_by(c, d, 1)

RefCounter_decr_by(c, d, by) ==
    LET data == RefCounter_read(c, d)
    IN IF data >= by THEN RefCounter_write(c, d, data - by) ELSE RC(c, d)

RefCounter_decr(c, d) == RefCounter_decr_by(c, d, 1)

RefCounter_new(c) == RefCounter_incr(c, RefCounter_null)

\* drop_in_place of a usize does nothing; alloc() returns at once because
\* data is not null
RefCounter_drain(c, d) == IF d # NullPtr THEN RefCounter_alloc(c, d) ELSE RC(c, d)

RefCounter_drop(c, d) == RefCounter_drain(c, d)

\* mutant: the clone keeps the cell RefCounter::new() gave it
RefCounter_clone_own_cell(c, d) == RefCounter_new(c)

\* RefCounter::new() allocates a cell, then data is overwritten by the source's
RefCounter_clone(c, d) == RC(RefCounter_new(c).cells, d)

RefCounter_from(c, n) ==
    LET r == RefCounter_new(c) IN RefCounter_write(r.cells, r.data, n)

\* `counter += other` and `counter -= other`
RefCounter_add_assign(c, d, other) == RefCounter_incr_by(c, d, other)

RefCounter_sub_assign(c, d, other) == RefCounter_decr_by(c, d, other)

\* ---------------------------------------------------------- UniquePointer
\* The world the operations act on.
World == [handles |-> handles, cells |-> cells, mem |-> mem, blocks |-> blocks]

Handle(addr, ptr, rc, fl) == [mut_addr |-> addr, mut_ptr |-> ptr, refs |-> rc, flags |-> fl]

\* put handle record h into slot i (creating the slot if needed)
Put(w, i, h) ==
    [w EXCEPT !.handles = [k \in (DOMAIN w.handles) \cup {i} |->
                              IF k = i THEN h ELSE w.handles[k]]]

provenance_of_mut_ptr(ptr) == ptr

addr(h) == h.mut_addr

is_null(h) == h.mut_ptr = NullPtr

is_not_null(h) == ~is_null(h)

is_copy(h) == BitAnd(h.flags, ISACOPY) = ISACOPY

is_not_copy(h) == ~is_copy(h)

\* mutant: the copy flag is not consulted
can_dealloc_ignores_copy(h) == BitAnd(h.flags, ISALLOC) = ISALLOC /\ is_not_null(h)

can_dealloc(h) == BitAnd(h.flags, ISALLOC) = ISALLOC /\ is_not_copy(h) /\ is_not_null(h)

is_allocated(h) == BitAnd(h.flags, ISALLOC) = ISALLOC /\ is_not_null(h)

is_written(h) == BitAnd(h.flags, WRITTEN) = WRITTEN /\ is_allocated(h)

refs(w, i) == RefCounter_read(w.cells, w.handles[i].refs)

null(w, i) ==
    LET r == RefCounter_new(w.cells)
    IN Put([w EXCEPT !.cells = r.cells], i, Handle(0, NullPtr, r.data, 0))

copy(w, i) ==
    LET w1 == null(w, i)
    IN Put(w1, i, [w1.handles[i] EXCEPT !.flags = BitOr(@, ISACOPY)])

\* mutant: the address is not kept in step with the pointer
set_mut_addr_never(w, i, a) == w

set_mut_addr(w, i, a) == Put(w, i, [w.handles[i] EXCEPT !.mut_addr = a])

set_mut_ptr(w, i, ptr, dealloc) ==
    LET h == w.handles[i]
        w1 == IF ptr = NullPtr
              THEN LET w0 == IF dealloc /\ is_allocated(h)
                             THEN Put([w EXCEPT !.blocks = @ \ {h.mut_ptr}], i,
                                      Handle(0, NullPtr, h.refs, 0))
                             ELSE w
                   IN set_mut_addr(w0, i, 0)
              ELSE set_mut_addr(w, i, provenance_of_mut_ptr(ptr))
    IN Put(w1, i, [w1.handles[i] EXCEPT !.mut_ptr = ptr])

\* std::alloc::alloc_zeroed: a block that is not currently allocated, zeroed
NewBlock(w) ==
    LET free == (DOMAIN w.mem \ {ExtAddr}) \ w.blocks
    IN CHOOSE a \in free : \A b \in free : a <= b

\* mutant: the block is attached but the ISALLOC bit is not set
alloc_unflagged(w, i) ==
    IF is_allocated(w.handles[i]) THEN w
    ELSE LET a == NewBlock(w)
             w1 == [w EXCEPT !.blocks = @ \cup {a}, !.mem = [@ EXCEPT ![a] = 0]]
         IN set_mut_ptr(w1, i, a, FALSE)

alloc(w, i) ==
    IF is_allocated(w.handles[i]) THEN w
    ELSE LET a == NewBlock(w)
             w1 == [w EXCEPT !.blocks = @ \cup {a}, !.mem = [@ EXCEPT ![a] = 0]]
             w2 == set_mut_ptr(w1, i, a, FALSE)
         IN Put(w2, i, [w2.handles[i] EXCEPT !.flags = BitOr(@, ISALLOC)])

write(w, i, data) ==
    LET w1 == alloc(w, i)
        w2 == [w1 EXCEPT !.mem = [@ EXCEPT ![w1.handles[i].mut_ptr] = data]]
    IN Put(w2, i, [w2.handles[i] EXCEPT !.flags = BitOr(@, WRITTEN)])

\* data: the value of the referent, which copy_to duplicates bit for bit
write_ref_mut(w, i, data) ==
    LET w1 == alloc(w, i)
        w2 == [w1 EXCEPT !.mem = [@ EXCEPT ![w1.handles[i].mut_ptr] = data]]
    IN Put(w2, i, [w2.handles[i] EXCEPT !.flags = BitOr(@, WRITTEN)])

write_ref(w, i, data) ==
    LET w1 == alloc(w, i)
        w2 == [w1 EXCEPT !.mem = [@ EXCEPT ![w1.handles[i].mut_ptr] = data]]
    IN Put(w2, i, [w2.handles[i] EXCEPT !.flags = BitOr(@, WRITTEN)])

\* mutant: a handle that swap allocates is also marked as written
swap_marks_written(w, i, j) ==
    IF is_null(w.handles[i]) /\ is_null(w.handles[j]) THEN w
    ELSE LET w1 == IF w.handles[i].mut_ptr = NullPtr THEN write(w, i, 0) ELSE w
             w2 == IF w1.handles[j].mut_ptr = NullPtr THEN write(w1, j, 0) ELSE w1
             p == w2.handles[i].mut_ptr
             q == w2.handles[j].mut_ptr
         IN [w2 EXCEPT !.mem = [a \in DOMAIN w2.mem |->
                                  IF a = p THEN w2.mem[q]
                                  ELSE IF a = q THEN w2.mem[p]
                                  ELSE w2.mem[a]]]

\* mutant: the second block receives the first one's bytes but keeps no copy of
\* its own
swap_overwrites(w, i, j) ==
    IF is_null(w.handles[i]) /\ is_null(w.handles[j]) THEN w
    ELSE LET w1 == IF w.handles[i].mut_ptr = NullPtr THEN alloc(w, i) ELSE w
             w2 == IF w1.handles[j].mut_ptr = NullPtr THEN alloc(w1, j) ELSE w1
             p == w2.handles[i].mut_ptr
             q == w2.handles[j].mut_ptr
         IN [w2 EXCEPT !.mem = [@ EXCEPT ![q] = w2.mem[p]]]

\* i: self, j: other; std::ptr::swap exchanges the two blocks' bytes (and
\* leaves them alone when both pointers are the same)
swap(w, i, j) ==
    IF is_null(w.handles[i]) /\ is_null(w.handles[j]) THEN w
    ELSE LET w1 == IF w.handles[i].mut_ptr = NullPtr THEN alloc(w, i) ELSE w
             w2 == IF w1.handles[j].mut_ptr = NullPtr THEN alloc(w1, j) ELSE w1
             p == w2.handles[i].mut_ptr
             q == w2.handles[j].mut_ptr
         IN [w2 EXCEPT !.mem = [a \in DOMAIN w2.mem |->
                                  IF a = p THEN w2.mem[q]
                                  ELSE IF a = q THEN w2.mem[p]
                                  ELSE w2.mem[a]]]

from(w, i, data) == write(null(w, i), i, data)

from_ref(w, i, data) == write_ref(null(w, i), i, data)

from_ref_mut(w, i, data) == write_ref_mut(null(w, i), i, data)

\* result of an operation that either panics or returns a T
Panicked == [panic |-> TRUE, val |-> 0]
Returned(v) == [panic |-> FALSE, val |-> v]

\* mutant: only the null check is made
read_unwritten(w, i) ==
    LET h == w.handles[i]
    IN IF is_null(h) THEN Panicked ELSE Returned(w.mem[h.mut_ptr])

read(w, i) ==
    LET h == w.handles[i]
    IN IF is_null(h) THEN Panicked
       ELSE IF ~is_written(h) THEN Panicked
       ELSE Returned(w.mem[h.mut_ptr])

\* Option<T>: some = FALSE is None
try_read(w, i) ==
    LET h == w.handles[i]
    IN IF is_null(h) THEN [some |-> FALSE, val |-> 0]
       ELSE IF is_written(h) THEN [some |-> TRUE, val |-> read(w, i).val]
       ELSE [some |-> FALSE, val |-> 0]

\* mutant: the view is handed out as soon as the handle is allocated
as_ref_when_allocated(w, i) ==
    LET h == w.handles[i]
    IN IF is_allocated(h) THEN [some |-> TRUE, val |-> w.mem[h.mut_ptr]]
       ELSE [some |-> FALSE, val |-> 0]

\* Option<&T>: some = FALSE is None
as_ref(w, i) ==
    LET h == w.handles[i]
    IN IF is_written(h) THEN [some |-> TRUE, val |-> w.mem[h.mut_ptr]]
       ELSE [some |-> FALSE, val |-> 0]

\* &T: the reference is modelled by the value it points at
inner_ref(w, i) ==
    LET h == w.handles[i]
    IN IF h.mut_ptr = NullPtr THEN Panicked ELSE Returned(w.mem[h.mut_ptr])

\* &mut T: as inner_ref
inner_mut(w, i) ==
    LET h == w.handles[i]
    IN IF h.mut_ptr = NullPtr THEN Panicked ELSE Returned(w.mem[h.mut_ptr])

\* Option<&mut T>
as_mut(w, i) ==
    LET h == w.handles[i]
    IN IF is_written(h) THEN [some |-> TRUE, val |-> inner_mut(w, i).val]
       ELSE [some |-> FALSE, val |-> 0]

\* Deref::deref and DerefMut::deref_mut
deref(w, i) == inner_ref(w, i)

deref_mut(w, i) == inner_mut(w, i)

\* result of a comparison that returned
Answered(b) == [panic |-> FALSE, eq |-> b]

\* what `a.eq(b)` gives once both operands were evaluated
T_eq(a, b) == IF a.panic \/ b.panic THEN Panicked ELSE Answered(a.val = b.val)

\* mutant: a plain comparison of the referents
eq_by_value(w, i, j) == T_eq(inner_ref(w, i), inner_ref(w, j))

\* i: self, j: fles
eq(w, i, j) ==
    IF addr(w.handles[i]) = addr(w.handles[j]) THEN Answered(TRUE)
    ELSE IF is_null(w.handles[i]) THEN Answered(is_null(w.handles[j]))
    ELSE T_eq(inner_ref(w, i), inner_ref(w, j))

\* result of a comparison that yields an Ordering: "None" is Option::None, the
\* other three are the Ordering (wrapped in Some by partial_cmp)
Ordered(o) == [panic |-> FALSE, ord |-> o]
NoOrder == [panic |-> TRUE, ord |-> "None"]

\* T::cmp and T::partial_cmp on the referents; taking a referent through a
\* null pointer panics
T_cmp(a, b) ==
    IF a.panic \/ b.panic THEN NoOrder
    ELSE Ordered(IF a.val < b.val THEN "Less" ELSE IF a.val = b.val THEN "Equal" ELSE "Greater")

\* i: self, j: other
partial_cmp(w, i, j) ==
    IF is_null(w.handles[i]) THEN Ordered("None")
    ELSE IF addr(w.handles[i]) = addr(w.handles[j]) THEN Ordered("Equal")
    ELSE T_cmp(inner_ref(w, i), inner_ref(w, j))

cmp(w, i, j) ==
    IF is_null(w.handles[i]) THEN Ordered("Less")
    ELSE T_cmp(inner_ref(w, i), inner_ref(w, j))

\* Box<T>: the box is modelled by the value it holds
into_box_unchecked(w, i) ==
    IF is_null(w.handles[i]) THEN Panicked ELSE read(w, i)

\* mutant: the null check is left to into_box_unchecked
into_box_unguarded(w, i) ==
    LET b == into_box_unchecked(w, i)
    IN IF b.panic THEN Panicked ELSE [some |-> TRUE, val |-> b.val]

\* Option<Box<T>>
into_box(w, i) ==
    IF is_null(w.handles[i]) THEN [some |-> FALSE, val |-> 0]
    ELSE LET b == into_box_unchecked(w, i)
         IN IF b.panic THEN Panicked ELSE [some |-> TRUE, val |-> b.val]

\* mutant: cloning does not count
incr_ref_never(w, i) == w

incr_ref(w, i) ==
    LET h == w.handles[i]
    IN IF is_null(h) THEN w
       ELSE LET r == RefCounter_incr(w.cells, h.refs)
            IN Put([w EXCEPT !.cells = r.cells], i, [h EXCEPT !.refs = r.data])

decr_ref(w, i) ==
    LET h == w.handles[i]
    IN IF RefCounter_read(w.cells, h.refs) = 0 THEN w
       ELSE LET r == RefCounter_decr(w.cells, h.refs)
            IN Put([w EXCEPT !.cells = r.cells], i, [h EXCEPT !.refs = r.data])

\* mutant: the pointer is reset but the flags are left as they were
free_keeps_flags(w, i) ==
    IF ~can_dealloc(w.handles[i]) THEN w
    ELSE set_mut_ptr(w, i, NullPtr, FALSE)

\* mutant: the release also resets every handle on the same block
free_resets_sharers(w, i) ==
    IF ~can_dealloc(w.handles[i]) THEN w
    ELSE [w EXCEPT !.handles = [k \in DOMAIN w.handles |->
                                  IF w.handles[k].mut_ptr = w.handles[i].mut_ptr
                                  THEN Handle(0, NullPtr, w.handles[k].refs, 0)
                                  ELSE w.handles[k]]]

free(w, i) ==
    IF ~can_dealloc(w.handles[i]) THEN w
    ELSE LET w1 == IF ~is_null(w.handles[i])
                   THEN LET w0 == set_mut_ptr(w, i, NullPtr, FALSE)
                            r == RefCounter_drain(w0.cells, w0.handles[i].refs)
                        IN Put([w0 EXCEPT !.cells = r.cells], i,
                               [w0.handles[i] EXCEPT !.refs = r.data])
                   ELSE w
         IN Put(w1, i, [w1.handles[i] EXCEPT !.flags = 0])

\* mutant: a soft release frees without looking at the counter
dealloc_frees_when_soft(w, i, soft) ==
    IF is_null(w.handles[i]) THEN w ELSE free(w, i)

\* mutant: a hard release honours the counter like a soft one
dealloc_counts_first(w, i, soft) ==
    IF is_null(w.handles[i]) THEN w
    ELSE IF RefCounter_read(w.cells, w.handles[i].refs) > 0
         THEN decr_ref(w, i)
         ELSE free(w, i)

dealloc(w, i, soft) ==
    IF is_null(w.handles[i]) THEN w
    ELSE IF soft /\ RefCounter_read(w.cells, w.handles[i].refs) > 0
         THEN decr_ref(w, i)
         ELSE free(w, i)

drop_in_place(w, i) == dealloc(w, i, TRUE)

\* mutant: the handle goes away without releasing its share
drop_without_release(w, i) ==
    [w EXCEPT !.handles = [k \in (DOMAIN w.handles) \ {i} |-> w.handles[k]]]

\* Drop::drop, then the drop glue of the fields (RefCounter::drop), then the
\* handle is gone
drop(w, i) ==
    LET w1 == drop_in_place(w, i)
        r == RefCounter_drop(w1.cells, w1.handles[i].refs)
    IN [w1 EXCEPT !.cells = r.cells,
                  !.handles = [k \in (DOMAIN w1.handles) \ {i} |-> w1.handles[k]]]

\* `x.refs = y.refs.clone()`: the clone is built, then the old value of the
\* field is dropped, then the field is overwritten
assign_refs_clone(w, j, i) ==
    LET r == RefCounter_clone(w.cells, w.handles[i].refs)
        o == RefCounter_drop(r.cells, w.handles[j].refs)
    IN Put([w EXCEPT !.cells = o.cells], j, [w.handles[j] EXCEPT !.refs = r.data])

\* mutant: the clone is not pointed at the source's block
clone_without_pointer(w, i, j) ==
    LET w1 == incr_ref(w, i)
        w2 == copy(w1, j)
        w4 == assign_refs_clone(w2, j, i)
    IN Put(w4, j, [w4.handles[j] EXCEPT !.flags = w4.handles[i].flags])

\* i: the source slot (self); j: the slot that receives the new handle
clone(w, i, j) ==
    LET w1 == incr_ref(w, i)
        w2 == copy(w1, j)
        w3 == set_mut_ptr(w2, j, w2.handles[i].mut_ptr, FALSE)
        w4 == assign_refs_clone(w3, j, i)
    IN Put(w4, j, [w4.handles[j] EXCEPT !.flags = w4.handles[i].flags])

\* mutant: the propagated handle is flagged as a copy
propagate_as_copy(w, i, j) ==
    LET w1 == incr_ref(w, i)
        w2 == copy(w1, j)
        w3 == set_mut_ptr(w2, j, w2.handles[i].mut_ptr, FALSE)
        w4 == assign_refs_clone(w3, j, i)
    IN Put(w4, j, [w4.handles[j] EXCEPT !.flags = BitOr(w4.handles[i].flags, ISACOPY)])

propagate(w, i, j) ==
    LET w1 == incr_ref(w, i)
        w2 == null(w1, j)
        w3 == set_mut_ptr(w2, j, w2.handles[i].mut_ptr, FALSE)
        w4 == assign_refs_clone(w3, j, i)
    IN Put(w4, j, [w4.handles[j] EXCEPT !.flags = w4.handles[i].flags])

copy_from_mut_ptr(w, j, ptr, n) ==
    LET r == RefCounter_from(w.cells, n)
    IN Put([w EXCEPT !.cells = r.cells], j,
           Handle(provenance_of_mut_ptr(ptr), ptr, r.data, BitOr(BitOr(ISACOPY, ISALLOC), WRITTEN)))

copy_from_ref(w, j, ptr, n) == copy_from_mut_ptr(w, j, ptr, n)

read_only(w, j, ptr) == copy_from_ref(w, j, ptr, 1)

\* ----------------------------------------------------------- SmartPointer
\* The world the SmartPointer operations act on: the handles (address, raw
\* pointer, written), the memory of T values and the allocated blocks.
Smart(a, ptr, wr) == [mut_addr |-> a, mut_ptr |-> ptr, written |-> wr]

PutSmart(w, i, h) ==
    [w EXCEPT !.smarts = [k \in (DOMAIN w.smarts) \cup {i} |->
                             IF k = i THEN h ELSE w.smarts[k]]]

SmartPointer_addr(h) == h.mut_addr

\* the two assertions on mut_addr hold in every state the operations produce
SmartPointer_is_null(h) == h.mut_ptr = NullPtr

SmartPointer_is_not_null(h) == ~SmartPointer_is_null(h)

SmartPointer_is_written(h) == SmartPointer_is_not_null(h) /\ h.written

SmartPointer_is_allocated(h) == SmartPointer_is_not_null(h) /\ SmartPointer_is_written(h)

SmartPointer_null(w, j) == PutSmart(w, j, Smart(0, NullPtr, FALSE))

\* the last parameter (dealloc) is not used by the code
SmartPointer_set_mut_ptr(w, i, ptr, dl) ==
    PutSmart(w, i, [w.smarts[i] EXCEPT
                       !.mut_addr = IF ptr = NullPtr THEN 0 ELSE provenance_of_mut_ptr(ptr),
                       !.mut_ptr = ptr])

SmartPointer_alloc(w, i) ==
    IF SmartPointer_is_allocated(w.smarts[i]) THEN w
    ELSE LET a == NewBlock(w)
             w1 == [w EXCEPT !.blocks = @ \cup {a}, !.mem = [@ EXCEPT ![a] = 0]]
         IN SmartPointer_set_mut_ptr(w1, i, a, FALSE)

SmartPointer_write(w, i, data) ==
    LET w1 == SmartPointer_alloc(w, i)
        w2 == [w1 EXCEPT !.mem = [@ EXCEPT ![w1.smarts[i].mut_ptr] = data]]
    IN PutSmart(w2, i, [w2.smarts[i] EXCEPT !.written = TRUE])

\* data: the value of the referent, which copy_to duplicates bit for bit
SmartPointer_write_ref_mut(w, i, data) ==
    LET w1 == SmartPointer_alloc(w, i)
        w2 == [w1 EXCEPT !.mem = [@ EXCEPT ![w1.smarts[i].mut_ptr] = data]]
    IN PutSmart(w2, i, [w2.smarts[i] EXCEPT !.written = TRUE])

SmartPointer_write_ref(w, i, data) ==
    LET w1 == SmartPointer_alloc(w, i)
        w2 == [w1 EXCEPT !.mem = [@ EXCEPT ![w1.smarts[i].mut_ptr] = data]]
    IN PutSmart(w2, i, [w2.smarts[i] EXCEPT !.written = TRUE])

SmartPointer_from(w, j, data) == SmartPointer_write(SmartPointer_null(w, j), j, data)

\* i: self, j: the slot of the handle returned
SmartPointer_copy(w, i, j) ==
    LET w1 == SmartPointer_null(w, j)
        w2 == SmartPointer_set_mut_ptr(w1, j, w1.smarts[i].mut_ptr, FALSE)
    IN PutSmart(w2, j, [w2.smarts[j] EXCEPT !.written = w2.smarts[i].written])

SmartPointer_copy_from_mut_ptr(w, j, ptr) ==
    PutSmart(w, j, Smart(provenance_of_mut_ptr(ptr), ptr, TRUE))

SmartPointer_copy_from_ref(w, j, ptr) == SmartPointer_copy_from_mut_ptr(w, j, ptr)

SmartPointer_clone(w, i, j) == SmartPointer_copy_from_mut_ptr(w, j, w.smarts[i].mut_ptr)

SmartPointer_swap(w, i, j) ==
    IF SmartPointer_is_null(w.smarts[i]) /\ SmartPointer_is_null(w.smarts[j]) THEN w
    ELSE LET w1 == IF w.smarts[i].mut_ptr = NullPtr THEN SmartPointer_alloc(w, i) ELSE w
             w2 == IF w1.smarts[j].mut_ptr = NullPtr THEN SmartPointer_alloc(w1, j) ELSE w1
             p == w2.smarts[i].mut_ptr
             q == w2.smarts[j].mut_ptr
         IN [w2 EXCEPT !.mem = [a \in DOMAIN w2.mem |->
                                  IF a = p THEN w2.mem[q]
                                  ELSE IF a = q THEN w2.mem[p]
                                  ELSE w2.mem[a]]]

\* the raw pointer, or a panic when the handle is null
SmartPointer_cast_const(h) ==
    IF SmartPointer_is_null(h) THEN Panicked ELSE Returned(h.mut_ptr)

\* mutant: the written flag is not consulted
SmartPointer_read_unwritten(w, i) ==
    LET ptr == SmartPointer_cast_const(w.smarts[i])
    IN IF ptr.panic THEN Panicked ELSE Returned(w.mem[ptr.val])

SmartPointer_read(w, i) ==
    IF ~SmartPointer_is_written(w.smarts[i]) THEN Panicked
    ELSE LET ptr == SmartPointer_cast_const(w.smarts[i])
         IN IF ptr.panic THEN Panicked ELSE Returned(w.mem[ptr.val])

\* Option<T>: some = FALSE is None
SmartPointer_try_read(w, i) ==
    IF SmartPointer_is_written(w.smarts[i])
    THEN [some |-> TRUE, val |-> SmartPointer_read(w, i).val]
    ELSE [some |-> FALSE, val |-> 0]

\* ------------------------------------------------------- cons Cell (example)
\* A Cell is its head pointer, given by NoValue when the pointer is null and
\* by the value behind it otherwise, and its tail pointer, given by <<>> when
\* the pointer is null and by <<c>> when it holds the Cell c.  Every Cell of a
\* list owns its two pointers alone: Cell::clone copies the values.
NoValue == 0

Cell(h, t) == [head |-> h, tail |-> t]

Cell_nil == Cell(NoValue, <<>>)

Cell_new(item) == Cell(item, <<>>)

Cell_is_nil(c) == c.head = NoValue /\ c.tail = <<>>

RECURSIVE Cell_clone(_)
Cell_clone(c) ==
    Cell(c.head, IF c.tail = <<>> THEN <<>> ELSE <<Cell_clone(c.tail[1])>>)

RECURSIVE Cell_len(_)
Cell_len(c) ==
    (IF c.head # NoValue THEN 1 ELSE 0)
        + (IF c.tail = <<>> THEN 0 ELSE Cell_len(c.tail[1]))

RECURSIVE Cell_values(_)
Cell_values(c) ==
    (IF c.head # NoValue THEN <<c.head>> ELSE <<>>)
        \o (IF c.tail = <<>> THEN <<>> ELSE Cell_values(c.tail[1]))

\* self.head and other.head change places
Cell_swap_head(self, other) ==
    [self |-> [self EXCEPT !.head = other.head], other |-> [other EXCEPT !.head = self.head]]

RECURSIVE Cell_add(_, _)
Cell_add(self, item) ==
    IF Cell_is_nil(item) THEN self
    ELSE LET new == Cell_clone(item)
         IN IF self.head = NoValue
            THEN LET s == IF new.head # NoValue
                          THEN Cell_swap_head(self, new)
                          ELSE [self |-> self, other |-> new]
                     n1 == IF s.other.tail # <<>> /\ s.other.head # NoValue
                           THEN [s.other EXCEPT !.tail = <<[s.other.tail[1] EXCEPT
                                                              !.head = s.other.head]>>]
                           ELSE s.other
                 IN [s.self EXCEPT !.tail = <<n1>>]
            ELSE IF self.tail = <<>>
                 THEN [self EXCEPT !.tail = <<new>>]
                 ELSE [self EXCEPT !.tail = <<Cell_add(self.tail[1], new)>>]

\* the Cell after the call and the bool returned
Cell_pop(self) ==
    IF self.tail # <<>>
    THEN [cell |-> [self EXCEPT !.tail = <<>>], ok |-> TRUE]
    ELSE IF self.head # NoValue
         THEN [cell |-> [self EXCEPT !.head = NoValue], ok |-> TRUE]
         ELSE [cell |-> self, ok |-> FALSE]

\* ------------------------------------------------------------ the machine
\* RefCounter::alloc takes &self and stores the new cell's address in
\* self.data through meta_mut(), a shared reference cast to &mut: undefined
\* behaviour.  An unoptimised build performs the store and the call returns;
\* an optimised build may keep taking self.data as null, so that alloc and
\* write call each other until the stack overflows or for ever.  A call
\* that reaches the store has both outcomes; ret holds NoReturn once a call
\* did not return, and the program takes no further step.
NoReturn == [call |-> "no return"]
Running == ret # NoReturn

\* the operation allocated the cell of a null counter if the cell sequence
\* grew: only the storing branch of RefCounter::alloc appends to it
StoresThroughShared(before, after) == Len(after) > Len(before)

\* the outcome in which the call never returns: nothing of it is observable
DoesNotReturn ==
    /\ ret' = NoReturn
    /\ UNCHANGED <<handles, cells, mem, blocks, counters, smarts, cons>>

Commit(w) ==
    /\ Running
    /\ \/ /\ handles' = w.handles
          /\ cells' = w.cells
          /\ mem' = w.mem
          /\ blocks' = w.blocks
          /\ UNCHANGED <<counters, ret, smarts, cons>>
       \/ /\ StoresThroughShared(cells, w.cells)
          /\ DoesNotReturn

\* ret before any observer was called
NoCall == [call |-> "none"]

Live == DOMAIN handles
\* a new handle takes the lowest unused slot (slots only name the handles)
FreeSlots == {j \in Slots \ Live : \A k \in Slots \ Live : j <= k}
CellsLeft == MaxCells - Len(cells)
\* the addresses the allocator can hand out: the mapped memory but for the
\* caller's own object
HeapNow == (DOMAIN mem) \ {ExtAddr}
BlockFor(i) == is_allocated(handles[i]) \/ HeapNow \ blocks # {}

Init ==
    /\ handles = <<>>
    /\ cells = <<>>
    /\ mem \in [Addrs -> (Values \cup {0})]
    /\ \A a \in HeapAddrs : mem[a] = 0
    /\ mem[ExtAddr] \in Values
    /\ blocks = {}
    /\ counters = <<>>
    /\ smarts = <<>>
    /\ cons = <<>>
    /\ ret = NoCall

\* as Init, with MaxBlocks + 1 blocks of heap
InitWide ==
    /\ handles = <<>>
    /\ cells = <<>>
    /\ mem \in [Addrs \cup {SpareAddr} -> (Values \cup {0})]
    /\ \A a \in HeapAddrs \cup {SpareAddr} : mem[a] = 0
    /\ mem[ExtAddr] \in Values
    /\ blocks = {}
    /\ counters = <<>>
    /\ smarts = <<>>
    /\ cons = <<>>
    /\ ret = NoCall

Null(j) ==
    /\ j \in FreeSlots
    /\ CellsLeft >= 1
    /\ Commit(null(World, j))

From(j, v) ==
    /\ j \in FreeSlots
    /\ CellsLeft >= 1
    /\ HeapNow \ blocks # {}
    /\ Commit(from(World, j, v))

FromRef(j, v) ==
    /\ j \in FreeSlots
    /\ CellsLeft >= 1
    /\ HeapNow \ blocks # {}
    /\ Commit(from_ref(World, j, v))

FromRefMut(j, v) ==
    /\ j \in FreeSlots
    /\ CellsLeft >= 1
    /\ HeapNow \ blocks # {}
    /\ Commit(from_ref_mut(World, j, v))

Alloc(i) ==
    /\ i \in Live
    /\ BlockFor(i)
    /\ Commit(alloc(World, i))

Write(i, v) ==
    /\ i \in Live
    /\ BlockFor(i)
    /\ Commit(write(World, i, v))

WriteRef(i, v) ==
    /\ i \in Live
    /\ BlockFor(i)
    /\ Commit(write_ref(World, i, v))

WriteRefMut(i, v) ==
    /\ i \in Live
    /\ BlockFor(i)
    /\ Commit(write_ref_mut(World, i, v))

Clone(i, j) ==
    /\ i \in Live
    /\ j \in FreeSlots
    /\ CellsLeft >= 2
    /\ Commit(clone(World, i, j))

Propagate(i, j) ==
    /\ i \in Live
    /\ j \in FreeSlots
    /\ CellsLeft >= 2
    /\ Commit(propagate(World, i, j))

CopyFromRef(j, n) ==
    /\ j \in FreeSlots
    /\ CellsLeft >= 1
    /\ Commit(copy_from_ref(World, j, ExtAddr, n))

\* the raw pointers a caller can hand over: the null pointer, the address of an
\* object of its own, or what cast_mut() of a live handle returned
RawPtrs == {NullPtr, ExtAddr} \cup {handles[i].mut_ptr : i \in Live}

CopyFromMutPtr(j, ptr, n) ==
    /\ j \in FreeSlots
    /\ ptr \in RawPtrs
    /\ CellsLeft >= 1
    /\ Commit(copy_from_mut_ptr(World, j, ptr, n))

ReadOnly(j) ==
    /\ j \in FreeSlots
    /\ CellsLeft >= 1
    /\ Commit(read_only(World, j, ExtAddr))

Dealloc(i, soft) ==
    /\ i \in Live
    /\ Commit(dealloc(World, i, soft))

Drop(i) ==
    /\ i \in Live
    /\ Commit(drop(World, i))

\* a.swap(&mut b): two distinct handles; a null one of the two is allocated
SwapBlockFor(i, j) ==
    \/ is_null(handles[i]) = is_null(handles[j])
    \/ HeapNow \ blocks # {}

Swap(i, j) ==
    /\ i \in Live
    /\ j \in Live \ {i}
    /\ SwapBlockFor(i, j)
    /\ Commit(swap(World, i, j))

\* read() takes &self: it returns a T or panics and assigns nothing
Read(i) ==
    /\ Running
    /\ i \in Live
    /\ ret' = read(World, i)
    /\ UNCHANGED <<handles, cells, mem, blocks, counters, smarts, cons>>

\* try_read() takes &self: it returns an Option<T> and assigns nothing
TryRead(i) ==
    /\ Running
    /\ i \in Live
    /\ ret' = try_read(World, i)
    /\ UNCHANGED <<handles, cells, mem, blocks, counters, smarts, cons>>

\* the views: each returns a reference, an Option of one, or panics, and
\* assigns no field of the handle
Observe(i, out) ==
    /\ Running
    /\ i \in Live
    /\ ret' = out
    /\ UNCHANGED <<handles, cells, mem, blocks, counters, smarts, cons>>

AsRef(i) == Observe(i, as_ref(World, i))

AsMut(i) == Observe(i, as_mut(World, i))

InnerRef(i) == Observe(i, inner_ref(World, i))

InnerMut(i) == Observe(i, inner_mut(World, i))

Deref(i) == Observe(i, deref(World, i))

DerefMut(i) == Observe(i, deref_mut(World, i))

IntoBox(i) == Observe(i, into_box(World, i))

IntoBoxUnchecked(i) == Observe(i, into_box_unchecked(World, i))

\* a == b takes two shared references (they may name one handle); it returns a
\* bool or panics and assigns nothing
Eq(i, j) ==
    /\ Running
    /\ i \in Live
    /\ j \in Live
    /\ ret' = eq(World, i, j)
    /\ UNCHANGED <<handles, cells, mem, blocks, counters, smarts, cons>>

\* ------------------------------------------- RefCounter values on their own
Held == DOMAIN counters
FreeCounterSlots == {k \in CounterSlots \ Held : \A m \in CounterSlots \ Held : k <= m}

\* the result r of a RefCounter operation becomes the value of counter k
CommitCounter(k, r) ==
    /\ Running
    /\ \/ /\ cells' = r.cells
          /\ counters' = [m \in Held \cup {k} |-> IF m = k THEN r.data ELSE counters[m]]
          /\ UNCHANGED <<handles, mem, blocks, ret, smarts, cons>>
       \/ /\ StoresThroughShared(cells, r.cells)
          /\ DoesNotReturn

\* a call that writes allocates the cell of a null counter first
CellFor(k) == counters[k] # NullPtr \/ CellsLeft >= 1

CounterNull(k) ==
    /\ k \in FreeCounterSlots
    /\ CommitCounter(k, RC(cells, RefCounter_null))

CounterNew(k) ==
    /\ k \in FreeCounterSlots
    /\ CellsLeft >= 1
    /\ CommitCounter(k, RefCounter_new(cells))

CounterFrom(k, n) ==
    /\ k \in FreeCounterSlots
    /\ CellsLeft >= 1
    /\ CommitCounter(k, RefCounter_from(cells, n))

CounterIncr(k) ==
    /\ k \in Held
    /\ CellFor(k)
    /\ RefCounter_read(cells, counters[k]) + 1 <= MaxCount
    /\ CommitCounter(k, RefCounter_incr(cells, counters[k]))

CounterIncrBy(k, n) ==
    /\ k \in Held
    /\ CellFor(k)
    /\ RefCounter_read(cells, counters[k]) + n <= MaxCount
    /\ CommitCounter(k, RefCounter_incr_by(cells, counters[k], n))

CounterAddAssign(k, n) ==
    /\ k \in Held
    /\ CellFor(k)
    /\ RefCounter_read(cells, counters[k]) + n <= MaxCount
    /\ CommitCounter(k, RefCounter_add_assign(cells, counters[k], n))

CounterDecr(k) ==
    /\ k \in Held
    /\ CellFor(k)
    /\ CommitCounter(k, RefCounter_decr(cells, counters[k]))

CounterDecrBy(k, n) ==
    /\ k \in Held
    /\ CellFor(k)
    /\ CommitCounter(k, RefCounter_decr_by(cells, counters[k], n))

CounterSubAssign(k, n) ==
    /\ k \in Held
    /\ CellFor(k)
    /\ CommitCounter(k, RefCounter_sub_assign(cells, counters[k], n))

CounterWrite(k, n) ==
    /\ k \in Held
    /\ CellFor(k)
    /\ CommitCounter(k, RefCounter_write(cells, counters[k], n))

\* c2 = c.clone(): k is c, k2 the slot of c2
CounterClone(k, k2) ==
    /\ k \in Held
    /\ k2 \in FreeCounterSlots
    /\ CellsLeft >= 1
    /\ CommitCounter(k2, RefCounter_clone(cells, counters[k]))

CounterDrain(k) ==
    /\ k \in Held
    /\ CommitCounter(k, RefCounter_drain(cells, counters[k]))

\* the counter goes out of scope: Drop::drop runs, then the value is gone
CounterDrop(k) ==
    /\ Running
    /\ k \in Held
    /\ cells' = RefCounter_drop(cells, counters[k]).cells
    /\ counters' = [m \in Held \ {k} |-> counters[m]]
    /\ UNCHANGED <<handles, mem, blocks, ret, smarts, cons>>

\* ------------------------------------------------ SmartPointer handles
SmartWorld == [smarts |-> smarts, mem |-> mem, blocks |-> blocks]

CommitSmart(w) ==
    /\ Running
    /\ smarts' = w.smarts
    /\ mem' = w.mem
    /\ blocks' = w.blocks
    /\ UNCHANGED <<handles, cells, counters, ret, cons>>

SmartLive == DOMAIN smarts
FreeSmartSlots == {j \in Slots \ SmartLive : \A k \in Slots \ SmartLive : j <= k}

SmartNull(j) ==
    /\ j \in FreeSmartSlots
    /\ CommitSmart(SmartPointer_null(SmartWorld, j))

SmartFrom(j, v) ==
    /\ j \in FreeSmartSlots
    /\ HeapNow \ blocks # {}
    /\ CommitSmart(SmartPointer_from(SmartWorld, j, v))

SmartCopyFromRef(j) ==
    /\ j \in FreeSmartSlots
    /\ CommitSmart(SmartPointer_copy_from_ref(SmartWorld, j, ExtAddr))

\* the raw pointers a caller can hand over: the null pointer, the address of an
\* object of its own, or what cast_mut() of a live SmartPointer or
\* UniquePointer returned
SmartRawPtrs ==
    {NullPtr, ExtAddr} \cup {smarts[i].mut_ptr : i \in SmartLive}
                      \cup {handles[i].mut_ptr : i \in Live}

SmartCopyFromMutPtr(j, ptr) ==
    /\ j \in FreeSmartSlots
    /\ ptr \in SmartRawPtrs
    /\ CommitSmart(SmartPointer_copy_from_mut_ptr(SmartWorld, j, ptr))

SmartWrite(i, v) ==
    /\ i \in SmartLive
    /\ SmartPointer_is_allocated(smarts[i]) \/ HeapNow \ blocks # {}
    /\ CommitSmart(SmartPointer_write(SmartWorld, i, v))

SmartSwap(i, j) ==
    /\ i \in SmartLive
    /\ j \in SmartLive \ {i}
    /\ \/ SmartPointer_is_null(smarts[i]) = SmartPointer_is_null(smarts[j])
       \/ HeapNow \ blocks # {}
    /\ CommitSmart(SmartPointer_swap(SmartWorld, i, j))

SmartCopy(i, j) ==
    /\ i \in SmartLive
    /\ j \in FreeSmartSlots
    /\ CommitSmart(SmartPointer_copy(SmartWorld, i, j))

SmartClone(i, j) ==
    /\ i \in SmartLive
    /\ j \in FreeSmartSlots
    /\ CommitSmart(SmartPointer_clone(SmartWorld, i, j))

\* the handle goes out of scope: SmartPointer has no Drop, nothing runs
SmartForget(i) ==
    /\ Running
    /\ i \in SmartLive
    /\ smarts' = [k \in SmartLive \ {i} |-> smarts[k]]
    /\ UNCHANGED <<handles, cells, mem, blocks, counters, ret, cons>>

\* ------------------------------------------------------ the list example
\* let mut head = Cell::new(item)
CellNew(item) ==
    /\ Running
    /\ cons = <<>>
    /\ \/ /\ cons' = <<Cell_new(item)>>
          /\ UNCHANGED <<handles, cells, mem, blocks, counters, ret, smarts>>
       \/ DoesNotReturn

\* head.add(&Cell::new(item))
CellAdd(item) ==
    /\ Running
    /\ cons # <<>>
    /\ Cell_len(cons[1]) < MaxLen
    /\ \/ /\ cons' = <<Cell_add(cons[1], Cell_new(item))>>
          /\ UNCHANGED <<handles, cells, mem, blocks, counters, ret, smarts>>
       \/ DoesNotReturn

\* head.pop(): ret takes the bool returned
CellPop ==
    /\ Running
    /\ cons # <<>>
    /\ \/ /\ cons' = <<Cell_pop(cons[1]).cell>>
          /\ ret' = [call |-> "pop", ok |-> Cell_pop(cons[1]).ok]
          /\ UNCHANGED <<handles, cells, mem, blocks, counters, smarts>>
       \/ /\ Cell_pop(cons[1]).ok
          /\ DoesNotReturn

\* every operation of the reference-counting protocol
Next ==
    \/ \E j \in Slots : Null(j)
    \/ \E j \in Slots, v \in Values : From(j, v)
    \/ \E i \in Slots, v \in Values : Write(i, v)
    \/ \E i \in Slots, j \in Slots : Clone(i, j)
    \/ \E i \in Slots, j \in Slots : Propagate(i, j)
    \/ \E j \in Slots, n \in 0..MaxRefs : CopyFromRef(j, n)
    \/ \E i \in Slots, soft \in BOOLEAN : Dealloc(i, soft)
    \/ \E i \in Slots : Drop(i)

Spec == Init /\ [][Next]_vars

\* only the safe operations: no propagate, no copy_from_*
NextSafe ==
    \/ \E j \in Slots : Null(j)
    \/ \E j \in Slots, v \in Values : From(j, v)
    \/ \E i \in Slots, v \in Values : Write(i, v)
    \/ \E i \in Slots, v \in Values : WriteRef(i, v)
    \/ \E i \in Slots, j \in Slots : Clone(i, j)
    \/ \E i \in Slots, soft \in BOOLEAN : Dealloc(i, soft)
    \/ \E i \in Slots : Drop(i)

SpecSafe == Init /\ [][NextSafe]_vars

\* building, filling and dropping handles: every constructor of an owning or
\* read-only handle and every way to write
NextBuild ==
    \/ \E j \in Slots : Null(j)
    \/ \E j \in Slots, v \in Values : From(j, v)
    \/ \E j \in Slots, v \in Values : FromRef(j, v)
    \/ \E j \in Slots, v \in Values : FromRefMut(j, v)
    \/ \E j \in Slots : ReadOnly(j)
    \/ \E i \in Slots : Alloc(i)
    \/ \E i \in Slots, v \in Values : Write(i, v)
    \/ \E i \in Slots, v \in Values : WriteRef(i, v)
    \/ \E i \in Slots, v \in Values : WriteRefMut(i, v)
    \/ \E i \in Slots : Drop(i)

SpecBuild == Init /\ [][NextBuild]_vars

\* reading handles in every state of their life: null, allocated, written
NextRead ==
    \/ \E j \in Slots : Null(j)
    \/ \E j \in Slots, v \in Values : From(j, v)
    \/ \E i \in Slots : Alloc(i)
    \/ \E i \in Slots, v \in Values : Write(i, v)
    \/ \E i \in Slots : Drop(i)
    \/ \E i \in Slots : Read(i)
    \/ \E i \in Slots : TryRead(i)

SpecRead == Init /\ [][NextRead]_vars

\* handles that share one allocation: built by null or from, multiplied by clone,
\* written through any of them (the zero value included), released or dropped
NextShare ==
    \/ \E j \in Slots : Null(j)
    \/ \E j \in Slots, v \in Values : From(j, v)
    \/ \E i \in Slots, j \in Slots : Clone(i, j)
    \/ \E i \in Slots, v \in Values \cup {0} : Write(i, v)
    \/ \E i \in Slots, soft \in BOOLEAN : Dealloc(i, soft)
    \/ \E i \in Slots : Drop(i)

SpecShare == Init /\ [][NextShare]_vars

\* RefCounter values built, cloned, changed and dropped
NextCounter ==
    \/ \E k \in CounterSlots : CounterNull(k)
    \/ \E k \in CounterSlots : CounterNew(k)
    \/ \E k \in CounterSlots, n \in Counts : CounterFrom(k, n)
    \/ \E k \in CounterSlots : CounterIncr(k)
    \/ \E k \in CounterSlots, n \in Counts : CounterIncrBy(k, n)
    \/ \E k \in CounterSlots : CounterDecr(k)
    \/ \E k \in CounterSlots, n \in Counts : CounterDecrBy(k, n)
    \/ \E k \in CounterSlots, n \in Counts : CounterWrite(k, n)
    \/ \E k \in CounterSlots, k2 \in CounterSlots : CounterClone(k, k2)
    \/ \E k \in CounterSlots : CounterDrain(k)
    \/ \E k \in CounterSlots : CounterDrop(k)

SpecCounter == Init /\ [][NextCounter]_vars

\* counting up and down on RefCounter values that are not cloned
NextArith ==
    \/ \E k \in CounterSlots : CounterNull(k)
    \/ \E k \in CounterSlots, n \in Counts : CounterFrom(k, n)
    \/ \E k \in CounterSlots : CounterIncr(k)
    \/ \E k \in CounterSlots, n \in Counts : CounterIncrBy(k, n)
    \/ \E k \in CounterSlots, n \in Counts : CounterAddAssign(k, n)
    \/ \E k \in CounterSlots : CounterDecr(k)
    \/ \E k \in CounterSlots, n \in Counts : CounterDecrBy(k, n)
    \/ \E k \in CounterSlots, n \in Counts : CounterSubAssign(k, n)
    \/ \E k \in CounterSlots : CounterDrop(k)

SpecArith == Init /\ [][NextArith]_vars

\* handles onto heap blocks and onto a caller's object, their clones, and the
\* exchange of what they point at
NextSwap ==
    \/ \E j \in Slots : Null(j)
    \/ \E j \in Slots, v \in Values : From(j, v)
    \/ \E j \in Slots : ReadOnly(j)
    \/ \E i \in Slots, j \in Slots : Clone(i, j)
    \/ \E i \in Slots, j \in Slots : Swap(i, j)
    \/ \E i \in Slots : Drop(i)

SpecSwap == Init /\ [][NextSwap]_vars

\* comparing handles that are null, allocated, written, or clones of each other
NextEq ==
    \/ \E j \in Slots : Null(j)
    \/ \E j \in Slots, v \in Values : From(j, v)
    \/ \E j \in Slots : ReadOnly(j)
    \/ \E i \in Slots : Alloc(i)
    \/ \E i \in Slots, j \in Slots : Clone(i, j)
    \/ \E i \in Slots : Drop(i)
    \/ \E i \in Slots, j \in Slots : Eq(i, j)

SpecEq == Init /\ [][NextEq]_vars

\* looking into handles in every state of their life
NextView ==
    \/ \E j \in Slots : Null(j)
    \/ \E j \in Slots, v \in Values : From(j, v)
    \/ \E i \in Slots : Alloc(i)
    \/ \E i \in Slots : Drop(i)
    \/ \E i \in Slots : Read(i)
    \/ \E i \in Slots : AsRef(i)
    \/ \E i \in Slots : AsMut(i)
    \/ \E i \in Slots : InnerRef(i)
    \/ \E i \in Slots : InnerMut(i)
    \/ \E i \in Slots : Deref(i)
    \/ \E i \in Slots : DerefMut(i)

SpecView == Init /\ [][NextView]_vars

\* the whole life of handles: every operation that sets the pointer, the
\* address or the flags
NextLife ==
    \/ \E j \in Slots : Null(j)
    \/ \E i \in Slots : Alloc(i)
    \/ \E i \in Slots, v \in Values : Write(i, v)
    \/ \E i \in Slots, j \in Slots : Swap(i, j)
    \/ \E i \in Slots, j \in Slots : Clone(i, j)
    \/ \E i \in Slots, j \in Slots : Propagate(i, j)
    \/ \E j \in Slots, ptr \in Addrs \cup {NullPtr}, n \in 0..MaxRefs : CopyFromMutPtr(j, ptr, n)
    \/ \E i \in Slots, soft \in BOOLEAN : Dealloc(i, soft)

SpecLife == Init /\ [][NextLife]_vars

\* boxing the value of handles that are null, allocated or written
NextBox ==
    \/ \E j \in Slots : Null(j)
    \/ \E j \in Slots, v \in Values : From(j, v)
    \/ \E i \in Slots : Alloc(i)
    \/ \E i \in Slots : Drop(i)
    \/ \E i \in Slots : IntoBox(i)
    \/ \E i \in Slots : IntoBoxUnchecked(i)

SpecBox == Init /\ [][NextBox]_vars

\* read-only handles onto a caller's object next to owning handles, released
\* softly, released hard and dropped
NextCopy ==
    \/ \E j \in Slots, v \in Values : From(j, v)
    \/ \E j \in Slots : ReadOnly(j)
    \/ \E j \in Slots, n \in 0..MaxRefs : CopyFromRef(j, n)
    \/ \E i \in Slots, j \in Slots : Clone(i, j)
    \/ \E i \in Slots, soft \in BOOLEAN : Dealloc(i, soft)
    \/ \E i \in Slots : Drop(i)

SpecCopy == Init /\ [][NextCopy]_vars

\* SmartPointer handles built (also from the raw pointer of a UniquePointer made
\* by from), written, exchanged, copied and cloned
NextSmart ==
    \/ \E j \in Slots : SmartNull(j)
    \/ \E j \in Slots, v \in Values : SmartFrom(j, v)
    \/ \E j \in Slots : SmartCopyFromRef(j)
    \/ \E j \in Slots, ptr \in (DOMAIN mem) \cup {NullPtr} : SmartCopyFromMutPtr(j, ptr)
    \/ \E j \in Slots, v \in Values : From(j, v)
    \/ \E i \in Slots, v \in Values : SmartWrite(i, v)
    \/ \E i \in Slots, j \in Slots : SmartSwap(i, j)
    \/ \E i \in Slots, j \in Slots : SmartCopy(i, j)
    \/ \E i \in Slots, j \in Slots : SmartClone(i, j)
    \/ \E i \in Slots : SmartForget(i)

SpecSmart == Init /\ [][NextSmart]_vars

\* the SmartPointer operations on a heap with room for a second block
SpecSmartPair == InitWide /\ [][NextSmart]_vars

\* a list built by Cell::new and add, and popped
NextCell ==
    \/ \E item \in Syms : CellNew(item)
    \/ \E item \in Syms : CellAdd(item)
    \/ CellPop

SpecCell == Init /\ [][NextCell]_vars

\* handles made by null, written, cloned, propagated and released, on a heap
\* with room for a second block
NextPair ==
    \/ \E j \in Slots : Null(j)
    \/ \E i \in Slots, v \in Values \cup {0} : Write(i, v)
    \/ \E i \in Slots, j \in Slots : Clone(i, j)
    \/ \E i \in Slots, j \in Slots : Propagate(i, j)
    \/ \E i \in Slots, soft \in BOOLEAN : Dealloc(i, soft)

SpecPair == InitWide /\ [][NextPair]_vars

TypeOK ==
    /\ Live \subseteq Slots
    /\ \A i \in Live :
          /\ handles[i].mut_ptr \in (DOMAIN mem) \cup {NullPtr}
          /\ handles[i].refs \in 1..Len(cells)
          /\ handles[i].flags \in 0..7
    /\ Len(cells) <= MaxCells
    /\ blocks \subseteq HeapNow
    /\ Held \subseteq CounterSlots
    /\ \A k \in Held : counters[k] \in {NullPtr} \cup (1..Len(cells))
    /\ SmartLive \subseteq Slots
    /\ \A i \in SmartLive :
          /\ smarts[i].mut_ptr \in (DOMAIN mem) \cup {NullPtr}
          /\ smarts[i].written \in BOOLEAN

\* the world after the step
WorldP == [handles |-> handles', cells |-> cells', mem |-> mem', blocks |-> blocks']

\* ------------------------------------------------------------------ claims

\* C1 (as stated): after q = h.clone(), for every handle h, null or not,
\* q.refs() is the value h.refs() had before the clone plus one, h.refs() equals
\* q.refs() and q.addr() equals h.addr().
\* "After" the call is the state once it has returned: a call that does not
\* return (see NoReturn) leaves no state to speak of.
C1_CloneAlwaysCountsOne ==
    [][\A i \in Live : \A j \in FreeSlots :
         (Clone(i, j) /\ Running') =>
            /\ refs(WorldP, j) = refs(World, i) + 1
            /\ refs(WorldP, i) = refs(WorldP, j)
            /\ addr(handles'[j]) = addr(handles'[i])]_vars

\* C1 (amended): after q = h.clone(), q.refs() is the value h.refs() had before
\* the clone plus one when h is not null and exactly that value when h is null;
\* in both cases h.refs() equals q.refs() (one shared counter cell) and q.addr()
\* equals h.addr().
\* "After" the call is the state once it has returned: a call that does not
\* return (see NoReturn) leaves no state to speak of.
C1_CloneCountsNonNull ==
    [][\A i \in Live : \A j \in FreeSlots :
         (Clone(i, j) /\ Running') =>
            /\ refs(WorldP, j) = refs(World, i) + (IF is_null(handles[i]) THEN 0 ELSE 1)
            /\ refs(WorldP, i) = refs(WorldP, j)
            /\ handles'[j].refs = handles'[i].refs
            /\ addr(handles'[j]) = addr(handles'[i])]_vars

\* p = from(v); q = p.clone(): two written handles at one heap address share
\* one counter cell that stands at 2, and the clone left its fresh cell behind
C1_Witness ==
    \E p \in Live : \E q \in Live \ {p} :
        /\ handles[p].refs = handles[q].refs
        /\ handles[p].mut_ptr \in HeapAddrs
        /\ addr(handles[q]) = addr(handles[p])
        /\ is_written(handles[p])
        /\ is_written(handles[q])
        /\ refs(World, p) = 2
        /\ refs(World, q) = 2
        /\ Len(cells) = 3

\* C2: the handle clone() returns is flagged as a copy, whatever the source's
\* own flag is.
\* Stated of the calls that return, so that a violation is one of the
\* returned value and not of the call's failing to return (see NoReturn).
C2_CloneIsCopy ==
    [][\A i \in Live : \A j \in FreeSlots :
         (Clone(i, j) /\ Running') => is_copy(handles'[j])]_vars

\* C3: under the safe operations at most one live handle per allocation address
\* satisfies can_dealloc().
C3_SingleFreer ==
    \A i \in Live : \A j \in Live :
        (/\ i # j
         /\ is_not_null(handles[i])
         /\ handles[i].mut_ptr = handles[j].mut_ptr
         /\ can_dealloc(handles[i])) => ~can_dealloc(handles[j])

\* C4: dealloc(true) on a non-null handle whose counter is k > 0 only lowers the
\* counter to k - 1: every handle keeps its pointer, address and flags, no
\* handle becomes null, memory and blocks are untouched.
C4_SoftReleaseOnlyDecrements ==
    [][\A i \in Live :
         (/\ is_not_null(handles[i])
          /\ refs(World, i) > 0
          /\ Dealloc(i, TRUE)) =>
            /\ handles' = handles
            /\ is_not_null(handles'[i])
            /\ cells' = [cells EXCEPT ![handles[i].refs] = refs(World, i) - 1]
            /\ refs(WorldP, i) = refs(World, i) - 1
            /\ mem' = mem
            /\ blocks' = blocks]_vars

\* the end of the scenario p = from(v); q = p.clone(); q.dealloc(true): both
\* handles still point at the block, the counter came down from 2 to 1 and
\* p.read() returns v
C4_Witness ==
    \E p \in Live : \E q \in Live \ {p} :
        /\ handles[p].refs = handles[q].refs
        /\ handles[p].mut_ptr \in HeapAddrs
        /\ handles[q].mut_ptr = handles[p].mut_ptr
        /\ refs(World, p) = 1
        /\ read(World, p) = Returned(MaxVal)

\* C5: dealloc(true) on a non-null, allocated, non-copy handle whose counter is
\* already 0 resets the handle to Null: is_null() is true, addr() is 0,
\* is_allocated() and is_written() are false, the flags are 0 and read() fails.
C5_SoftReleaseAtZeroResets ==
    [][\A i \in Live :
         (/\ is_not_null(handles[i])
          /\ is_allocated(handles[i])
          /\ is_not_copy(handles[i])
          /\ refs(World, i) = 0
          /\ Dealloc(i, TRUE)) =>
            LET h == handles'[i]
            IN /\ is_null(h)
               /\ addr(h) = 0
               /\ ~is_allocated(h)
               /\ ~is_written(h)
               /\ h.flags = 0
               /\ read(WorldP, i) = Panicked]_vars

\* a handle that owned a block was released down to counter 0 and then reset:
\* it is null with no flags, its counter reads 0 and read() fails
C5_Witness ==
    \E i \in Live :
        /\ is_null(handles[i])
        /\ handles[i].flags = 0
        /\ refs(World, i) = 0
        /\ blocks # {}
        /\ read(World, i) = Panicked

\* C6: dealloc(true), dealloc(false) and drop on a handle flagged as a copy
\* never null the handle and never release the block; the only state they
\* change is the shared counter, lowered by one by a soft release (drop
\* included) of a non-null handle whose counter is above 0.
C6_CopyNeverFrees ==
    [][\A i \in Live :
         /\ \A soft \in BOOLEAN :
              (is_copy(handles[i]) /\ Dealloc(i, soft)) =>
                 /\ handles' = handles
                 /\ mem' = mem
                 /\ blocks' = blocks
                 /\ cells' = (IF soft /\ is_not_null(handles[i]) /\ refs(World, i) > 0
                              THEN [cells EXCEPT ![handles[i].refs] = refs(World, i) - 1]
                              ELSE cells)
         /\ (is_copy(handles[i]) /\ Drop(i)) =>
                 /\ drop_in_place(World, i).handles = handles
                 /\ DOMAIN handles' = Live \ {i}
                 /\ \A k \in Live \ {i} : handles'[k] = handles[k]
                 /\ mem' = mem
                 /\ blocks' = blocks
                 /\ cells' = (IF is_not_null(handles[i]) /\ refs(World, i) > 0
                              THEN [cells EXCEPT ![handles[i].refs] = refs(World, i) - 1]
                              ELSE cells)]_vars

\* two copies of an outside object share a counter that soft releases brought
\* down to 0, and both still point at the object
C6_Witness ==
    \E p \in Live : \E q \in Live \ {p} :
        /\ is_copy(handles[p])
        /\ is_copy(handles[q])
        /\ handles[p].refs = handles[q].refs
        /\ handles[p].mut_ptr = ExtAddr
        /\ handles[q].mut_ptr = ExtAddr
        /\ refs(World, p) = 0

\* C7: dealloc(false) on a non-null, allocated, non-copy handle frees at once
\* whatever the counter: the handle becomes Null with all flags cleared and the
\* counter keeps its value (it is not decremented first).
C7_HardReleaseIgnoresCounter ==
    [][\A i \in Live :
         (/\ is_not_null(handles[i])
          /\ is_allocated(handles[i])
          /\ is_not_copy(handles[i])
          /\ Dealloc(i, FALSE)) =>
            LET h == handles'[i]
            IN /\ is_null(h)
               /\ addr(h) = 0
               /\ h.flags = 0
               /\ refs(WorldP, i) = refs(World, i)
               /\ cells' = cells]_vars

\* p = from(v); q = p.clone(); p.dealloc(false): p is null with no flags while
\* the counter it shares with q, which still points at the block, stays at 2
C7_Witness ==
    \E p \in Live : \E q \in Live \ {p} :
        /\ handles[p].refs = handles[q].refs
        /\ is_null(handles[p])
        /\ handles[p].flags = 0
        /\ handles[q].mut_ptr \in HeapAddrs
        /\ refs(World, p) = 2

\* C8: when a release reaches free() on a handle with can_dealloc() true, the
\* block the handle pointed to is returned to the allocator.
C8_FreeDeallocatesBlock ==
    [][\A i \in Live : \A soft \in BOOLEAN :
         (/\ can_dealloc(handles[i])
          /\ Dealloc(i, soft)
          /\ is_null(handles'[i])) =>
            handles[i].mut_ptr \notin blocks']_vars

\* what C9 promises of handle i after the value v was written
RoundTrip(w, i, v) ==
    LET h == w.handles[i]
    IN /\ is_not_null(h)
       /\ addr(h) # 0
       /\ is_allocated(h)
       /\ is_written(h)
       /\ ~is_copy(h)
       /\ refs(w, i) = 1
       /\ read(w, i) = Returned(v)

\* handle i is in the state null() builds
NullState(w, i) ==
    LET h == w.handles[i]
    IN /\ is_null(h)
       /\ addr(h) = 0
       /\ refs(w, i) = 1
       /\ ~is_allocated(h)
       /\ ~is_written(h)
       /\ ~is_copy(h)
       /\ ~as_ref(w, i).some

\* C9: a handle built by from(v), from_ref(&v), from_ref_mut(&mut v), or by
\* null() followed by write(v), write_ref(&v) or write_ref_mut(&mut v), is
\* non-null with addr() # 0, allocated, written, not a copy, has refs() = 1 and
\* reads v.
\* The call has two outcomes (see NoReturn): the formula asks of every one
\* of them that the call returns with the result the claim names.
C9_WriteReadRoundTrip ==
    [][\A v \in Values :
         /\ \A j \in FreeSlots :
               (From(j, v) \/ FromRef(j, v) \/ FromRefMut(j, v)) =>
                  (Running' /\ RoundTrip(WorldP, j, v))
         /\ \A i \in Live :
               (NullState(World, i) /\ (Write(i, v) \/ WriteRef(i, v) \/ WriteRefMut(i, v)))
                  => (Running' /\ RoundTrip(WorldP, i, v))]_vars

\* C10: null() yields a handle in the Null state with the counter at 1:
\* is_null() true, addr() = 0, refs() = 1, is_allocated(), is_written() and
\* is_copy() false, as_ref() None.
\* The call has two outcomes (see NoReturn): the formula asks of every one
\* of them that the call returns with the result the claim names.
C10_NullState ==
    [][\A j \in FreeSlots : Null(j) => (Running' /\ NullState(WorldP, j))]_vars

\* C11: read() panics exactly when the handle is null or not written and
\* returns the stored value otherwise; try_read() returns None in exactly those
\* states and Some(value) otherwise; neither call changes any handle's flags,
\* address, pointer or counter.
C11_ReadFailsIffNullOrUnwritten ==
    [][\A i \in Live :
         LET h == handles[i]
             bad == is_null(h) \/ ~is_written(h)
         IN /\ Read(i) =>
                 /\ (ret' = Panicked) <=> bad
                 /\ ~bad => ret' = Returned(mem[h.mut_ptr])
                 /\ handles' = handles
                 /\ cells' = cells
            /\ TryRead(i) =>
                 /\ (ret' = [some |-> FALSE, val |-> 0]) <=> bad
                 /\ ~bad => ret' = [some |-> TRUE, val |-> mem[h.mut_ptr]]
                 /\ handles' = handles
                 /\ cells' = cells]_vars

\* read() has panicked on the only handle ever built, which is allocated but
\* was never written
C11_Witness ==
    /\ ret = Panicked
    /\ Len(cells) = 1
    /\ \E i \in Live : is_allocated(handles[i]) /\ ~is_written(handles[i])

\* C12: after q = p.clone() of a written handle p, a write(v) through either
\* handle leaves the address of both unchanged and makes read() return v on
\* both; stated for the write that follows the clone at once and for every
\* later write through a handle whose block another written handle shares.
\* "After" the call is the state once it has returned: a call that does not
\* return (see NoReturn) leaves no state to speak of.
C12_WriteVisibleToSharers ==
    [][\A v \in Values \cup {0} :
         /\ \A p \in Live : \A q \in FreeSlots :
               (is_written(handles[p]) /\ Clone(p, q) /\ Running') =>
                  /\ addr(handles'[q]) = addr(handles'[p])
                  /\ \A x \in {p, q} :
                        LET w == write(WorldP, x, v)
                        IN /\ addr(w.handles[p]) = addr(handles[p])
                           /\ addr(w.handles[q]) = addr(handles[p])
                           /\ read(w, p) = Returned(v)
                           /\ read(w, q) = Returned(v)
         /\ \A i \in Live :
               (is_written(handles[i]) /\ Write(i, v)) =>
                  \A k \in Live :
                     (handles[k].mut_ptr = handles[i].mut_ptr /\ is_written(handles[k])) =>
                        /\ addr(handles'[k]) = addr(handles[k])
                        /\ addr(handles'[k]) = addr(handles'[i])
                        /\ read(WorldP, k) = Returned(v)]_vars

\* p = from(v); q = p.clone(); then the zero value was written through one of
\* them: both handles still share the block and both read the zero value
C12_Witness ==
    \E p \in Live : \E q \in Live \ {p} :
        /\ handles[p].refs = handles[q].refs
        /\ handles[p].mut_ptr \in HeapAddrs
        /\ addr(handles[q]) = addr(handles[p])
        /\ read(World, p) = Returned(0)
        /\ read(World, q) = Returned(0)

\* the handles of world w that point at the block of handle i
OnAllocation(w, i) == {k \in DOMAIN w.handles : w.handles[k].mut_ptr = w.handles[i].mut_ptr}

\* in world w the counter of every handle on a heap block equals the number of
\* handles on that block, and the counter cell of a heap block is held only by
\* the handles on that block
Tracks(w) ==
    \A i \in DOMAIN w.handles :
        w.handles[i].mut_ptr \in HeapAddrs =>
            /\ refs(w, i) = Cardinality(OnAllocation(w, i))
            /\ \A k \in DOMAIN w.handles :
                  w.handles[k].refs = w.handles[i].refs => k \in OnAllocation(w, i)

\* C13: for an allocation created by from(v), with further handles obtained
\* only by clone() or propagate() of non-null handles and handles discarded only
\* by drop, refs() equals the number of live handles on the allocation after
\* every step: from(v) establishes it and clone, propagate and drop keep it.
\* "After" the call is the state once it has returned: a call that does not
\* return (see NoReturn) leaves no state to speak of.
C13_CounterTracksLiveHandles ==
    [][/\ \A j \in FreeSlots : \A v \in Values :
            (From(j, v) /\ Running') =>
               /\ handles'[j].mut_ptr \in HeapAddrs
               /\ OnAllocation(WorldP, j) = {j}
               /\ refs(WorldP, j) = 1
               /\ Tracks(World) => Tracks(WorldP)
       /\ \A i \in Live :
            /\ (/\ Tracks(World)
                /\ is_not_null(handles[i])
                /\ \E j \in FreeSlots : Clone(i, j) \/ Propagate(i, j)
                /\ Running') =>
                   /\ Tracks(WorldP)
                   /\ handles[i].mut_ptr \in HeapAddrs =>
                        refs(WorldP, i) = refs(World, i) + 1
            /\ (Tracks(World) /\ Drop(i)) =>
                   /\ Tracks(WorldP)
                   /\ \A k \in Live \ {i} :
                        (handles[k].mut_ptr = handles[i].mut_ptr /\ handles[k].mut_ptr \in HeapAddrs) =>
                           refs(WorldP, k) = refs(World, k) - 1]_vars

\* p = from(v); a propagated handle was built and dropped again: p is alone on
\* its block, its counter is back at 1 and the handle that is gone has left its
\* cells behind
C13_Witness ==
    /\ Cardinality(Live) = 1
    /\ Len(cells) = 3
    /\ Tracks(World)
    /\ \A i \in Live : refs(World, i) = 1 /\ handles[i].mut_ptr \in HeapAddrs

\* C14: propagate() on a non-null handle p raises the shared counter by one and
\* returns a handle with p's address, p's counter cell and exactly p's flags:
\* the copy flag is not set, so the result's is_copy() equals p.is_copy().
\* A non-null handle p exists only where a constructor has returned, that is
\* in a build that performs the store of RefCounter::alloc, and there
\* propagate() returns too: the formula speaks of the call that returns.
C14_PropagateKeepsFlags ==
    [][\A i \in Live : \A j \in FreeSlots :
         (is_not_null(handles[i]) /\ Propagate(i, j) /\ Running') =>
            /\ refs(WorldP, i) = refs(World, i) + 1
            /\ refs(WorldP, j) = refs(WorldP, i)
            /\ handles'[j].refs = handles'[i].refs
            /\ handles'[i].refs = handles[i].refs
            /\ addr(handles'[j]) = addr(handles[i])
            /\ handles'[j].mut_ptr = handles[i].mut_ptr
            /\ handles'[j].flags = handles[i].flags
            /\ handles'[i].flags = handles[i].flags
            /\ is_copy(handles'[j]) = is_copy(handles[i])]_vars

\* q = p.propagate() of a written owner p: both are on p's block with the flags
\* ISALLOC and WRITTEN and nothing else, and the counter they share stands at 2
C14_Witness ==
    \E p \in Live : \E q \in Live \ {p} :
        /\ handles[p].refs = handles[q].refs
        /\ handles[p].mut_ptr \in HeapAddrs
        /\ handles[q].mut_ptr = handles[p].mut_ptr
        /\ handles[p].flags = BitOr(ISALLOC, WRITTEN)
        /\ handles[q].flags = BitOr(ISALLOC, WRITTEN)
        /\ refs(World, q) = 2

\* n soft releases in a row through handle i
RECURSIVE soft_releases(_, _, _)
soft_releases(w, i, n) == IF n = 0 THEN w ELSE soft_releases(dealloc(w, i, TRUE), i, n - 1)

\* C15: after q = p.propagate() on an allocated, non-copy handle p both p and q
\* satisfy can_dealloc() for the same address, and each of them passes through
\* free() and resets itself to Null when released with dealloc(false), or with
\* dealloc(true) once the counter is at 0, the other one still claiming the block.
C15_PropagatedPairBothFree ==
    [][\A i \in Live :
         /\ \A j \in FreeSlots :
              (/\ is_allocated(handles[i])
               /\ is_not_copy(handles[i])
               /\ j \in DOMAIN handles'
               /\ Propagate(i, j)) =>
                 /\ can_dealloc(handles'[i])
                 /\ can_dealloc(handles'[j])
                 /\ handles'[j].mut_ptr = handles'[i].mut_ptr
                 /\ \A x \in {i, j} : \A y \in {i, j} \ {x} :
                       LET h1 == dealloc(WorldP, x, FALSE)
                           h2 == dealloc(h1, y, FALSE)
                           s0 == soft_releases(WorldP, x, refs(WorldP, x))
                           s1 == dealloc(s0, x, TRUE)
                           s2 == dealloc(s1, y, TRUE)
                       IN /\ is_null(h1.handles[x])
                          /\ can_dealloc(h1.handles[y])
                          /\ is_null(h2.handles[y])
                          /\ refs(s0, x) = 0
                          /\ is_not_null(s0.handles[x])
                          /\ is_null(s1.handles[x])
                          /\ can_dealloc(s1.handles[y])
                          /\ is_null(s2.handles[y])
         /\ \A soft \in BOOLEAN :
              LET Others == {k \in Live \ {i} : /\ can_dealloc(handles[k])
                                                /\ handles[k].mut_ptr = handles[i].mut_ptr}
              IN (/\ DOMAIN handles' = DOMAIN handles
                  /\ can_dealloc(handles[i])
                  /\ Others # {}
                  /\ (~soft \/ refs(World, i) = 0)
                  /\ Dealloc(i, soft)) =>
                    /\ is_null(handles'[i])
                    /\ \A k \in Others :
                          /\ can_dealloc(handles'[k])
                          /\ handles'[k].mut_ptr = handles[i].mut_ptr]_vars

\* p = from(v); q = p.propagate(); p.dealloc(false); q.dealloc(false): both
\* handles went through free() for the one block: both are null with no flags
\* while the counter they share still stands at 2
C15_Witness ==
    \E p \in Live : \E q \in Live \ {p} :
        /\ handles[p].refs = handles[q].refs
        /\ is_null(handles[p])
        /\ is_null(handles[q])
        /\ handles[p].flags = 0
        /\ handles[q].flags = 0
        /\ refs(World, p) = 2
        /\ blocks # {}

\* what counter k reads now and after the step
Count(k) == RefCounter_read(cells, counters[k])
CountP(k) == RefCounter_read(cells', counters'[k])

\* C16: after c2 = c.clone() of an allocated counter both read the same value,
\* which cloning left unchanged; every later incr, decr or write through either
\* of them is read by both; dropping one leaves what the other reads unchanged.
\* "After" the call is the state once it has returned: a call that does not
\* return (see NoReturn) leaves no state to speak of.
C16_CounterClonesShare ==
    [][\A k \in Held :
         /\ \A k2 \in FreeCounterSlots :
              (counters[k] # NullPtr /\ CounterClone(k, k2) /\ Running') =>
                 /\ counters'[k2] = counters[k]
                 /\ counters'[k] = counters[k]
                 /\ CountP(k2) = Count(k)
                 /\ CountP(k) = Count(k)
         /\ \A m \in Held \ {k} :
              (counters[k] # NullPtr /\ counters[m] = counters[k]) =>
                 /\ \A n \in Counts :
                      (\/ CounterIncr(k)
                       \/ CounterDecr(k)
                       \/ CounterIncrBy(k, n)
                       \/ CounterDecrBy(k, n)
                       \/ CounterWrite(k, n)) =>
                          /\ counters'[m] = counters'[k]
                          /\ CountP(m) = CountP(k)
                 /\ CounterWrite(k, MaxCount) => CountP(m) = MaxCount
                 /\ CounterDrop(k) =>
                          /\ counters'[m] = counters[m]
                          /\ CountP(m) = Count(m)]_vars

\* c = RefCounter::new(); c2 = c.clone(); then the count was raised through one
\* of them: both are on the first cell and read MaxCount, the second cell is the
\* one the clone left behind
C16_Witness ==
    /\ Len(cells) = 2
    /\ Held = {1, 2}
    /\ counters[1] = 1
    /\ counters[2] = 1
    /\ Count(1) = MaxCount
    /\ Count(2) = MaxCount

\* C17: from any value v, incr_by(n) and += n make read() return v + n;
\* decr_by(n) and -= n make it return v - n when n <= v and leave it at v when
\* n > v; incr() adds one, decr() takes one and stays at 0 at 0; the value is
\* never below 0.
\* The call has two outcomes (see NoReturn): the formula asks of every one
\* of them that the call returns with the result the claim names.
C17_CounterArithmetic ==
    [][\A k \in Held :
         LET v == Count(k)
         IN /\ v >= 0
            /\ CounterIncr(k) => (Running' /\ CountP(k) = v + 1)
            /\ CounterDecr(k) => (Running' /\ CountP(k) = (IF v = 0 THEN 0 ELSE v - 1))
            /\ \A n \in Counts :
                 /\ (CounterIncrBy(k, n) \/ CounterAddAssign(k, n)) =>
                       (Running' /\ CountP(k) = v + n)
                 /\ (CounterDecrBy(k, n) \/ CounterSubAssign(k, n)) =>
                       /\ Running'
                       /\ CountP(k) = (IF n <= v THEN v - n ELSE v)
                       /\ CountP(k) >= 0]_vars

\* C18: RefCounter::null() reads 0 and allocates nothing; RefCounter::new()
\* reads 1; write(v) on a null counter allocates the cell first and then read()
\* returns v; RefCounter::from(n) reads n.
\* The call has two outcomes (see NoReturn): the formula asks of every one
\* of them that the call returns with the result the claim names.
C18_CounterConstruction ==
    [][/\ \A k \in FreeCounterSlots :
            /\ CounterNull(k) =>
                  /\ counters'[k] = NullPtr
                  /\ CountP(k) = 0
                  /\ cells' = cells
            /\ CounterNew(k) =>
                  /\ Running'
                  /\ CountP(k) = 1
                  /\ counters'[k] # NullPtr
            /\ \A n \in Counts : CounterFrom(k, n) => (Running' /\ CountP(k) = n)
       /\ \A k \in Held : \A n \in Counts :
            (counters[k] = NullPtr /\ CounterWrite(k, n)) =>
                  /\ Running'
                  /\ counters'[k] = Len(cells) + 1
                  /\ Len(cells') = Len(cells) + 1
                  /\ CountP(k) = n]_vars

\* C19: cloning a RefCounter allocates no new backing cell: the allocated cells
\* are the same before and after clone(), and the clone refers to the source's
\* cell.
\* Stated of the calls that return, so that a violation is one of the
\* returned value and not of the call's failing to return (see NoReturn).
C19_CounterCloneAllocatesNothing ==
    [][\A k \in Held : \A k2 \in FreeCounterSlots :
         (CounterClone(k, k2) /\ Running') =>
            /\ counters'[k2] = counters[k]
            /\ Len(cells') = Len(cells)
            /\ cells' = cells]_vars

\* C20: after drain() the counter behaves as though 0 had been written:
\* read() returns 0.
C20_DrainReadsZero ==
    \A k \in Held :
        LET r == RefCounter_drain(cells, counters[k])
        IN RefCounter_read(r.cells, r.data) = 0
\* what is stored behind handle i in world w: the block's value, or the zeroed
\* block alloc() is about to give a null handle
Behind(w, i) == IF is_null(w.handles[i]) THEN 0 ELSE w.mem[w.handles[i].mut_ptr]

\* C21: for two handles a and b (not both null) a.swap(b) exchanges the contents
\* of their backing memory; a.swap(b) performed twice gives back, through each
\* handle, the value that was readable before; neither swap changes a handle's
\* counter or copy flag.
C21_SwapIsItsOwnInverse ==
    \A a \in Live : \A b \in Live \ {a} :
        SwapBlockFor(a, b) =>
            LET w1 == swap(World, a, b)
                w2 == swap(w1, a, b)
            IN /\ ~(is_null(handles[a]) /\ is_null(handles[b])) =>
                     /\ Behind(w1, a) = Behind(World, b)
                     /\ Behind(w1, b) = Behind(World, a)
               /\ try_read(w2, a) = try_read(World, a)
               /\ try_read(w2, b) = try_read(World, b)
               /\ \A x \in {a, b} : is_not_null(handles[x]) => Behind(w2, x) = Behind(World, x)
               /\ \A x \in {a, b} : \A w \in {w1, w2} :
                     /\ refs(w, x) = refs(World, x)
                     /\ w.handles[x].refs = handles[x].refs
                     /\ is_copy(w.handles[x]) = is_copy(handles[x])

\* r = read_only(&x); p = null(); r.swap(p): x now holds the zero of p's fresh
\* block and p's block holds x's value, p is allocated and not written
C21_Witness ==
    \E r \in Live : \E p \in Live \ {r} :
        /\ handles[r].mut_ptr = ExtAddr
        /\ read(World, r) = Returned(0)
        /\ handles[p].mut_ptr \in HeapAddrs
        /\ ~is_written(handles[p])
        /\ mem[handles[p].mut_ptr] \in Values

\* C22: two handles with equal addr() compare equal with ==, two null handles
\* (both at address 0) included; no referent is looked at, so the comparison
\* of two null handles returns instead of panicking.
C22_SameAddressIsEqual ==
    \A i \in Live : \A j \in Live :
        addr(handles[i]) = addr(handles[j]) => eq(World, i, j) = Answered(TRUE)

\* p = null(); q = null(); p == q returned true, and so does every comparison
\* of the two
C22_Witness ==
    /\ ret = Answered(TRUE)
    /\ \E p \in Live : \E q \in Live \ {p} :
          /\ is_null(handles[p])
          /\ is_null(handles[q])
          /\ addr(handles[p]) = 0
          /\ addr(handles[q]) = 0

\* C23: when exactly one of the two handles is null, == returns false, whether
\* the null handle is the left or the right operand.
C23_OneNullIsUnequal ==
    \A i \in Live : \A j \in Live :
        (is_null(handles[i]) # is_null(handles[j])) => eq(World, i, j) = Answered(FALSE)

\* C24: as_ref() and as_mut() return Some (of the stored value) exactly when
\* is_written() and None otherwise; read(), as_ref(), as_mut(), inner_ref(),
\* inner_mut() and dereferencing leave refs() of every handle, and the counter
\* cells, as they were.
C24_ViewsDoNotCount ==
    [][\A i \in Live :
         /\ (AsRef(i) \/ AsMut(i)) =>
               /\ ret'.some = is_written(handles[i])
               /\ ret'.some => ret'.val = mem[handles[i].mut_ptr]
         /\ (\/ Read(i) \/ AsRef(i) \/ AsMut(i)
             \/ InnerRef(i) \/ InnerMut(i) \/ Deref(i) \/ DerefMut(i)) =>
               /\ cells' = cells
               /\ \A k \in Live : refs(WorldP, k) = refs(World, k)]_vars

\* p = from(v); p.as_ref() returned Some(v) and p's counter still stands at 1
C24_Witness ==
    /\ ret \in {[some |-> TRUE, val |-> v] : v \in Values}
    /\ \E p \in Live :
          /\ is_written(handles[p])
          /\ mem[handles[p].mut_ptr] = ret.val
          /\ refs(World, p) = 1

\* C25: alloc() on a null handle yields a non-null, allocated, not-written
\* handle; on an allocated handle it changes nothing (address, flags, counter,
\* contents); a second write() on one handle leaves its address where the first
\* write() put it.
C25_AllocIsIdempotent ==
    \A i \in Live :
        BlockFor(i) =>
            LET w1 == alloc(World, i)
            IN /\ is_null(handles[i]) =>
                     /\ is_not_null(w1.handles[i])
                     /\ is_allocated(w1.handles[i])
                     /\ ~is_written(w1.handles[i])
               /\ is_allocated(handles[i]) => w1 = World
               /\ alloc(w1, i) = w1
               /\ \A v \in Values : \A v2 \in Values :
                     LET w2 == write(World, i, v)
                     IN addr(write(w2, i, v2).handles[i]) = addr(w2.handles[i])

\* C26: in every reachable state of every handle addr() = 0 exactly when the
\* raw pointer is null.
C26_AddrZeroIffNull ==
    \A i \in Live : (addr(handles[i]) = 0) <=> (handles[i].mut_ptr = NullPtr)

\* a handle that was released (null again, address 0, its block still counted)
\* next to a handle built from a raw pointer to the caller's object
C26_Witness ==
    \E p \in Live : \E q \in Live \ {p} :
        /\ handles[p].mut_ptr = NullPtr
        /\ addr(handles[p]) = 0
        /\ blocks # {}
        /\ handles[q].mut_ptr = ExtAddr
        /\ addr(handles[q]) = ExtAddr

\* C27: whenever a handle's WRITTEN bit is set its ISALLOC bit is set too, and
\* is_written() implies is_allocated(), which implies that the handle is not
\* null.
C27_WrittenImpliesAllocated ==
    \A i \in Live :
        /\ BitAnd(handles[i].flags, WRITTEN) = WRITTEN => BitAnd(handles[i].flags, ISALLOC) = ISALLOC
        /\ is_written(handles[i]) => is_allocated(handles[i])
        /\ is_allocated(handles[i]) => ~is_null(handles[i])

\* p = null(); p.write(v): flags are exactly ISALLOC | WRITTEN on a heap block
C27_Witness ==
    \E p \in Live :
        /\ handles[p].flags = BitOr(ISALLOC, WRITTEN)
        /\ handles[p].mut_ptr \in HeapAddrs
        /\ is_written(handles[p])
        /\ mem[handles[p].mut_ptr] \in Values

\* C28: into_box() returns None on a null handle and Some(box of a copy of the
\* value) on a written one; into_box_unchecked() panics on a null handle;
\* neither changes a handle's address, flags or counter, nor the memory.
C28_IntoBoxKeepsHandle ==
    [][\A i \in Live :
         /\ IntoBox(i) =>
               /\ is_null(handles[i]) => ret' = [some |-> FALSE, val |-> 0]
               /\ is_written(handles[i]) => ret' = [some |-> TRUE, val |-> mem[handles[i].mut_ptr]]
         /\ IntoBoxUnchecked(i) =>
               /\ is_null(handles[i]) => ret' = Panicked
               /\ is_written(handles[i]) => ret' = Returned(mem[handles[i].mut_ptr])
         /\ (IntoBox(i) \/ IntoBoxUnchecked(i)) =>
               /\ handles' = handles
               /\ cells' = cells
               /\ mem' = mem
               /\ blocks' = blocks]_vars

\* p = null(); p.into_box() returned None and p is still the null handle with
\* its counter at 1
C28_Witness ==
    /\ ret = [some |-> FALSE, val |-> 0]
    /\ Live # {}
    /\ \A p \in Live : NullState(World, p)

\* handle j of world w is a read-only handle onto the caller's object, counting n
\* in the counter cell c
ReadOnlyOnto(w, j, n, c) ==
    LET h == w.handles[j]
    IN /\ addr(h) = ExtAddr
       /\ h.mut_ptr = ExtAddr
       /\ is_copy(h)
       /\ is_allocated(h)
       /\ is_written(h)
       /\ refs(w, j) = n
       /\ h.refs = c

\* C29: read_only(&x) and copy_from_ref(&x, n) create a handle whose addr() is
\* x's address, with is_copy(), is_allocated() and is_written() true and refs()
\* 1 (read_only) or n (copy_from_ref) in a fresh counter cell no other handle
\* holds; dealloc(true), dealloc(false) and drop of such a handle leave x, the
\* memory and the blocks alone, and dealloc leaves the handle non-null on x.
\* The call has two outcomes (see NoReturn): the formula asks of every one
\* of them that the call returns with the result the claim names.
C29_ReadOnlyNeverFrees ==
    [][/\ \A j \in FreeSlots :
            /\ ReadOnly(j) => (Running' /\ ReadOnlyOnto(WorldP, j, 1, Len(cells) + 1))
            /\ \A n \in 0..MaxRefs :
                  CopyFromRef(j, n) => (Running' /\ ReadOnlyOnto(WorldP, j, n, Len(cells) + 1))
            /\ (ReadOnly(j) \/ \E n \in 0..MaxRefs : CopyFromRef(j, n)) =>
                  /\ Running'
                  /\ Len(cells') = Len(cells) + 1
                  /\ \A k \in Live : handles'[k].refs # handles'[j].refs
       /\ \A i \in Live :
            (handles[i].mut_ptr = ExtAddr /\ is_copy(handles[i])) =>
               /\ \A soft \in BOOLEAN :
                     Dealloc(i, soft) =>
                        /\ handles'[i].mut_ptr = ExtAddr
                        /\ addr(handles'[i]) = ExtAddr
                        /\ handles'[i].flags = handles[i].flags
                        /\ mem' = mem
                        /\ blocks' = blocks
               /\ Drop(i) =>
                     /\ mem' = mem
                     /\ blocks' = blocks
                     /\ \A k \in Live \ {i} :
                           /\ handles'[k].mut_ptr = handles[k].mut_ptr
                           /\ handles'[k].flags = handles[k].flags]_vars

\* what a SmartPointer handle reports
SmartView(h) ==
    <<SmartPointer_addr(h), SmartPointer_is_null(h),
      SmartPointer_is_written(h), SmartPointer_is_allocated(h)>>

\* C30: the handle returned by clone() or copy() of a SmartPointer reports the
\* same addr(), is_null(), is_written() and is_allocated() as the source did
\* when it was copied.
C30_SmartCopiesAreIdentical ==
    [][\A i \in SmartLive : \A j \in FreeSmartSlots :
         (SmartClone(i, j) \/ SmartCopy(i, j)) => SmartView(smarts'[j]) = SmartView(smarts[i])]_vars
\* C31: a SmartPointer moves through Null, Allocated and Written: null() gives
\* a null handle with address 0 that is not written; write(v) makes the handle
\* non-null and written and read() then returns v; read() panics and
\* try_read() returns None whenever the handle is null or not written.
C31_SmartLifecycle ==
    /\ \A j \in FreeSmartSlots :
          LET w == SmartPointer_null(SmartWorld, j)
          IN /\ SmartPointer_is_null(w.smarts[j])
             /\ SmartPointer_addr(w.smarts[j]) = 0
             /\ ~SmartPointer_is_written(w.smarts[j])
    /\ \A i \in SmartLive : \A v \in Values :
          (SmartPointer_is_allocated(smarts[i]) \/ HeapNow \ blocks # {}) =>
              LET w == SmartPointer_write(SmartWorld, i, v)
              IN /\ SmartPointer_is_not_null(w.smarts[i])
                 /\ SmartPointer_is_written(w.smarts[i])
                 /\ SmartPointer_read(w, i) = Returned(v)
                 /\ SmartPointer_try_read(w, i) = [some |-> TRUE, val |-> v]
    /\ \A i \in SmartLive :
          (SmartPointer_is_null(smarts[i]) \/ ~SmartPointer_is_written(smarts[i])) =>
              /\ SmartPointer_read(SmartWorld, i) = Panicked
              /\ SmartPointer_try_read(SmartWorld, i) = [some |-> FALSE, val |-> 0]

\* a handle that swap() allocated and nothing wrote yet sits next to a written
\* one: the first refuses to be read, the second returns its value
C31_Witness ==
    \E i \in SmartLive : \E k \in SmartLive :
        /\ SmartPointer_is_not_null(smarts[i])
        /\ ~smarts[i].written
        /\ SmartPointer_read(SmartWorld, i) = Panicked
        /\ smarts[k].mut_ptr \in HeapAddrs
        /\ SmartPointer_is_written(smarts[k])
        /\ SmartPointer_read(SmartWorld, k) = Returned(mem[smarts[k].mut_ptr])

\* C32: a SmartPointer can be released, and the release frees at once, with
\* no counter check, when the handle believes itself allocated and not null:
\* the block goes back to the allocator and the handle is in the Null state.
\* The only place the code takes a release request is set_mut_ptr(null, dealloc).
C32_SmartReleaseFrees ==
    \A i \in SmartLive :
        (SmartPointer_is_allocated(smarts[i]) /\ smarts[i].mut_ptr \in blocks) =>
            LET w == SmartPointer_set_mut_ptr(SmartWorld, i, NullPtr, TRUE)
            IN /\ SmartPointer_is_null(w.smarts[i])
               /\ SmartPointer_addr(w.smarts[i]) = 0
               /\ smarts[i].mut_ptr \notin w.blocks

\* C33: a non-copy, allocated handle whose counter is k stays non-null and
\* readable through its first k dealloc(true) calls, which only count the
\* counter down to 0, and is Null after call k + 1; a sole owner (counter 1)
\* needs two calls, and the single soft release made by drop neither resets
\* the handle nor frees its block.
C33_SoftReleaseCountsDownFirst ==
    \A i \in Live :
        can_dealloc(handles[i]) =>
            LET k == refs(World, i)
            IN /\ \A m \in 0..k :
                     LET w == soft_releases(World, i, m)
                     IN /\ is_not_null(w.handles[i])
                        /\ addr(w.handles[i]) = addr(handles[i])
                        /\ w.handles[i].flags = handles[i].flags
                        /\ refs(w, i) = k - m
                        /\ read(w, i) = read(World, i)
                        /\ w.blocks = blocks
               /\ LET w == soft_releases(World, i, k + 1)
                  IN /\ is_null(w.handles[i])
                     /\ addr(w.handles[i]) = 0
                     /\ w.handles[i].flags = 0
               /\ k >= 1 =>
                     /\ is_not_null(drop_in_place(World, i).handles[i])
                     /\ is_allocated(drop_in_place(World, i).handles[i])
                     /\ drop(World, i).blocks = blocks
                     /\ drop(World, i).mem = mem

\* a written sole owner: counter 1, one soft release leaves it readable with
\* the counter at 0, the second one makes it Null
C33_Witness ==
    \E i \in Live :
        /\ can_dealloc(handles[i])
        /\ is_written(handles[i])
        /\ refs(World, i) = 1
        /\ ~read(soft_releases(World, i, 1), i).panic
        /\ refs(soft_releases(World, i, 1), i) = 0
        /\ is_null(soft_releases(World, i, 2).handles[i])

\* C34: a release is local to the released handle: dealloc(soft) or free() on
\* one handle leaves the pointer, address and flags of every other handle as
\* they were, so once the owner p has been freed (hard, or soft with the
\* counter at 0) a clone q on the same address is still non-null and written
\* and q.read() returns the value.
C34_ReleaseIsLocal ==
    \A p \in Live :
        /\ \A soft \in BOOLEAN :
              LET w == dealloc(World, p, soft)
              IN \A q \in Live \ {p} :
                    /\ w.handles[q].mut_ptr = handles[q].mut_ptr
                    /\ addr(w.handles[q]) = addr(handles[q])
                    /\ w.handles[q].flags = handles[q].flags
                    /\ read(w, q) = read(World, q)
        /\ LET w == free(World, p)
           IN \A q \in Live \ {p} :
                 /\ w.handles[q].mut_ptr = handles[q].mut_ptr
                 /\ addr(w.handles[q]) = addr(handles[q])
                 /\ w.handles[q].flags = handles[q].flags
                 /\ read(w, q) = read(World, q)
        /\ \A q \in Live \ {p} : \A soft \in BOOLEAN :
              (/\ can_dealloc(handles[p])
               /\ addr(handles[q]) = addr(handles[p])
               /\ is_written(handles[q])
               /\ ~soft \/ refs(World, p) = 0) =>
                  LET w == dealloc(World, p, soft)
                  IN /\ is_null(w.handles[p])
                     /\ is_not_null(w.handles[q])
                     /\ is_written(w.handles[q])
                     /\ read(w, q) = Returned(mem[handles[q].mut_ptr])

\* an owner and its clone, both written and counted twice: the hard release of
\* the owner nulls the owner and the clone still reads the value
C34_Witness ==
    \E p \in Live : \E q \in Live \ {p} :
        /\ can_dealloc(handles[p])
        /\ handles[q].mut_ptr = handles[p].mut_ptr
        /\ handles[q].refs = handles[p].refs
        /\ is_written(handles[q])
        /\ refs(World, p) = 2
        /\ is_null(dealloc(World, p, FALSE).handles[p])
        /\ read(dealloc(World, p, FALSE), q) = Returned(mem[handles[q].mut_ptr])

\* C35: swap leaves the written and copy flags as they were and allocates
\* lazily: with both handles null a.swap(b) changes nothing; with a written
\* and b null, after a.swap(b) b is non-null and allocated but not written and
\* a is still written, so b.try_read() is None and b.read() panics.
C35_SwapAllocatesUnwritten ==
    \A a \in Live : \A b \in Live \ {a} :
        SwapBlockFor(a, b) =>
            LET w == swap(World, a, b)
            IN /\ (is_null(handles[a]) /\ is_null(handles[b])) => w = World
               /\ \A x \in {a, b} :
                     /\ BitAnd(w.handles[x].flags, WRITTEN) = BitAnd(handles[x].flags, WRITTEN)
                     /\ BitAnd(w.handles[x].flags, ISACOPY) = BitAnd(handles[x].flags, ISACOPY)
               /\ (is_written(handles[a]) /\ is_null(handles[b])) =>
                     /\ is_not_null(w.handles[b])
                     /\ is_allocated(w.handles[b])
                     /\ ~is_written(w.handles[b])
                     /\ is_written(w.handles[a])
                     /\ try_read(w, b) = [some |-> FALSE, val |-> 0]
                     /\ read(w, b) = Panicked
               /\ (is_written(handles[b]) /\ is_null(handles[a])) =>
                     /\ is_allocated(w.handles[a])
                     /\ ~is_written(w.handles[a])
                     /\ is_written(w.handles[b])
                     /\ try_read(w, a) = [some |-> FALSE, val |-> 0]
                     /\ read(w, a) = Panicked

\* a written handle next to a null one with a block to spare: the swap gives
\* the null one a block that holds the value and still refuses to read it
C35_Witness ==
    \E a \in Live : \E b \in Live \ {a} :
        /\ is_written(handles[a])
        /\ is_null(handles[b])
        /\ SwapBlockFor(a, b)
        /\ read(World, a) = Returned(1)
        /\ swap(World, a, b).mem[swap(World, a, b).handles[b].mut_ptr] = 1
        /\ read(swap(World, a, b), b) = Panicked

\* C36: ordering agrees with equality on handles with the same addr(): for two
\* such handles partial_cmp returns Some(Equal), cmp returns Equal and ==
\* returns true, two null handles included.
C36_OrderingAgreesWithEquality ==
    \A i \in Live : \A j \in Live \ {i} :
        addr(handles[i]) = addr(handles[j]) =>
            /\ eq(World, i, j) = Answered(TRUE)
            /\ partial_cmp(World, i, j) = Ordered("Equal")
            /\ cmp(World, i, j) = Ordered("Equal")

\* C37: one counter, one allocation: in every state reached by null, write,
\* clone, propagate and dealloc, two live handles that hold the same counter
\* cell have the same addr() or at least one of them is null; a null handle
\* that is cloned and then written through both handles is included.
C37_OneCounterOneAllocation ==
    \A i \in Live : \A j \in Live \ {i} :
        handles[i].refs = handles[j].refs =>
            \/ addr(handles[i]) = addr(handles[j])
            \/ is_null(handles[i])
            \/ is_null(handles[j])

\* C38: a clone of a RefCounter taken while the source is still null shares
\* the source's value: an incr or a write made afterwards through the source
\* or through the clone is what read() returns on the other one.
C38_NullCounterCloneShares ==
    \A k \in Held : \A n \in Counts :
        (counters[k] = RefCounter_null /\ CellsLeft >= 2) =>
            LET c == RefCounter_clone(cells, counters[k])
                s == RefCounter_incr(c.cells, counters[k])
                t == RefCounter_write(c.cells, c.data, n)
            IN /\ RefCounter_read(s.cells, c.data) = RefCounter_read(s.cells, s.data)
               /\ RefCounter_read(t.cells, counters[k]) = RefCounter_read(t.cells, t.data)

\* C39: a SmartPointer writes in place: once the handle is non-null, through
\* write, write_ref or the lazy allocation inside swap, a later write,
\* write_ref or write_ref_mut allocates nothing and leaves addr() as it was.
C39_SmartWritesInPlace ==
    \A i \in SmartLive : \A v \in Values :
        (SmartPointer_is_not_null(smarts[i]) /\ HeapNow \ blocks # {}) =>
            \A w \in {SmartPointer_write(SmartWorld, i, v),
                      SmartPointer_write_ref(SmartWorld, i, v),
                      SmartPointer_write_ref_mut(SmartWorld, i, v)} :
                /\ w.blocks = blocks
                /\ SmartPointer_addr(w.smarts[i]) = SmartPointer_addr(smarts[i])

\* C40: on a Cell that holds n >= 1 values, built by new and repeated add,
\* pop() returns true and leaves len() = n - 1 and values() equal to the
\* values before without the last one; on an empty Cell pop() returns false
\* and leaves it empty.
C40_PopRemovesLastValue ==
    cons # <<>> =>
        LET n == Cell_len(cons[1])
            r == Cell_pop(cons[1])
        IN /\ n >= 1 =>
                 /\ r.ok
                 /\ Cell_len(r.cell) = n - 1
                 /\ Cell_values(r.cell) = SubSeq(Cell_values(cons[1]), 1, n - 1)
           /\ n = 0 =>
                 /\ ~r.ok
                 /\ Cell_len(r.cell) = 0
                 /\ Cell_values(r.cell) = <<>>

====
